---- MODULE Spec2Model ----
(***************************************************************************)
(* Training-step loss orchestration of the diffusion fine-tuning engine:   *)
(* SDTrainer.hook_train_loop with the prior-prediction oracle, the         *)
(* guidance loss strategies of toolkit/guidance.py, the timestep sampler   *)
(* of BaseSDTrainProcess.process_general_training_batch and the target     *)
(* selection of SDTrainer.calculate_loss.                                  *)
(*                                                                         *)
(* Tensors are abstracted to what the control flow depends on: a batch is  *)
(* its size, its per-item network weights and its optional fields; a loss  *)
(* is its value, whether it is NaN, whether it is still attached to the    *)
(* autograd graph of the trainable parameters and whether it requires      *)
(* grad; a gradient buffer is the set of backward passes accumulated in    *)
(* it since it was last zeroed.                                            *)
(***************************************************************************)
EXTENDS Integers, Sequences, FiniteSets, TLC

\* ------------------------------------------------------------------ bounds
MaxSteps == 2
MaxBatch == 2
MaxWeight == 2
RandDenom == 4
MaxDenoise == 5
MaxEpochLen == 2
MaxGamma == 2
NumElems == 2
MaxJobs == 3

\* ------------------------------------------------------- program constants
NumTrainTimesteps == 1000
\* 0.000001, the smallest gamma that is not applied, in millionths
GammaEps == 1

VARIABLES
    cfg,                  \* train_config / process configuration, fixed for the job
    pc,                   \* position of the training process
    step_num,             \* number of completed training steps
    batch,                \* the DataLoaderBatchDTO of the current step
    is_grad_accumulation_step,
    network_weight_list,  \* local of hook_train_loop
    match_adapter_assist, \* local of hook_train_loop
    sub,                  \* index of the current sub-batch of the zip loop
    path,                 \* "direct" | "guidance" | "none" for the current sub-batch
    do_prior_prediction,  \* self.do_prior_prediction
    net_is_active,        \* self.network.is_active
    net_multiplier,       \* self.network.multiplier
    unet_training,        \* self.sd.unet.training
    adapter_is_active,    \* self.adapter.is_active
    prior_pred,           \* TRUE iff prior_pred is not None
    loss,                 \* local loss of the current sub-batch
    grads,                \* .grad buffers of the trainable parameters
    sched_steps,          \* number of lr_scheduler.step() calls of the loop
    pre,                  \* values of the network/adapter state at the last oracle or strategy call
    pending,              \* backward passes since the last optimizer.step()
    trace,                \* events of the current step, in order
    fwds,                 \* forward passes (sd.predict_noise) of the current step, in order
    smp,                  \* timestep sampler: configuration, random draw and result
    lossin,               \* calculate_loss: flags and the selected target
    dataloader_iterator,      \* batches left in the iterator of the data loader
    dataloader_iterator_reg,  \* batches left in the iterator of the regularization loader
    batch_cached,         \* the fetched batch still holds its cached tensors
    additional_loss,      \* adapter.additional_loss: 0 for None, else 1 + the step that attached it
    added_terms,          \* the additional-loss terms added to the losses of the current step
    alg,                  \* calculate_loss: tensors, modifiers and the returned loss
    snr,                  \* calculate_loss: SNR options and the reweightings applied
    runner,               \* run.py main: the job list, the counters and the messages
    pred_kwargs,          \* the adapter residual arguments of the sub-batch's forward passes
    checkpoints           \* the sample() and save() calls made inside the training loop

vars == << cfg, pc, step_num, batch, is_grad_accumulation_step, network_weight_list,
           match_adapter_assist, sub, path, do_prior_prediction, net_is_active,
           net_multiplier, unet_training, adapter_is_active, prior_pred, loss, grads,
           sched_steps, pre, pending, trace, fwds, smp, lossin,
           dataloader_iterator, dataloader_iterator_reg, batch_cached, checkpoints,
           additional_loss, added_terms, alg, snr, runner, pred_kwargs >>

trainVars == << cfg, pc, step_num, batch, is_grad_accumulation_step, network_weight_list,
           match_adapter_assist, sub, path, do_prior_prediction, net_is_active,
           net_multiplier, unet_training, adapter_is_active, prior_pred, loss, grads,
           sched_steps, pre, pending, trace, fwds,
           dataloader_iterator, dataloader_iterator_reg, batch_cached, checkpoints,
           additional_loss, added_terms , pred_kwargs >>

\* the iterators of the training loop and the scoped batch
loopVars == << dataloader_iterator, dataloader_iterator_reg, batch_cached, checkpoints >>

\* the adapter's additional-loss term
termVars == << additional_loss, added_terms >>

\* ----------------------------------------------------------------- helpers
Neg(ws) == [i \in 1..Len(ws) |-> 0 - ws[i]]

Pos(ws) == [i \in 1..Len(ws) |-> ws[i]]

Weights == 1..MaxWeight

\* the network weights of a batch of n items, the items taken in the order of
\* their weights
WeightLists(n) ==
    { ws \in [1..n -> Weights] : \A i \in 1..(n - 1) : ws[i] <= ws[i + 1] }

\* a dispatch that takes tnt for a strategy
GuidanceTypes_WithTnt == {"targeted", "polarity", "targeted_polarity", "tnt"}

GuidanceTypes == {"targeted", "polarity", "targeted_polarity"}

\* guidance_type of the first file item; "none" stands for a batch without
\* unconditional latents
GuidanceTags == GuidanceTypes \cup {"none", "tnt", "other"}

\* the batches the data loader of a job can yield: a mask, a control image or
\* a regularization item only if the job's datasets provide them
Batches(c) ==
    { b \in [n : 1..MaxBatch, weights : UNION { WeightLists(k) : k \in 1..MaxBatch },
             is_reg : BOOLEAN, has_mask : BOOLEAN, has_adapter_img : BOOLEAN,
             guidance : GuidanceTags] :
        /\ Len(b.weights) = b.n
        /\ b.is_reg => c.ds_reg
        /\ b.has_mask => c.ds_mask
        /\ b.has_adapter_img => c.ds_control }

NoBatch == [n |-> 0, weights |-> << >>, is_reg |-> FALSE, has_mask |-> FALSE,
            has_adapter_img |-> FALSE, guidance |-> "none"]

\* configurations of a job that trains for one step on datasets with masks
\* and control images, with or without regularization datasets, with at most
\* one of the options that ask for a prior prediction on every batch or every
\* masked batch; an assistant adapter only with whole batches (a ControlNet
\* one only without those options and without a trained adapter), an embedding
\* or a ClipVisionAdapter only as the single trained module
StepConfigs ==
    { c \in [steps : {1}, single_item_batching : BOOLEAN, do_prior_divergence : BOOLEAN,
             inverted_mask_prior : BOOLEAN, correct_pred_norm : BOOLEAN,
             has_network : BOOLEAN, adapter : {"none", "reference", "clip_vision"},
             assistant_adapter : BOOLEAN, assistant_type : {"none", "t2i", "controlnet"},
             match_adapter_chance : {0, 1},
             embedding : BOOLEAN, adapter_additional_loss : {FALSE},
             ds_reg : BOOLEAN, ds_mask : {TRUE}, ds_control : {TRUE},
             dl_len : {1}, dl_reg_len : {0, 1},
             save_every : {0}, sample_every : {0}] :
        /\ (~c.assistant_adapter) => c.match_adapter_chance = 0
        /\ c.assistant_adapter <=> (c.assistant_type # "none")
        /\ c.assistant_type = "controlnet" =>
              /\ c.adapter = "none"
              /\ ~c.do_prior_divergence /\ ~c.inverted_mask_prior /\ ~c.correct_pred_norm
        /\ c.dl_reg_len = (IF c.ds_reg THEN 1 ELSE 0)
        /\ c.single_item_batching => ~c.assistant_adapter
        /\ c.embedding => (~c.has_network /\ c.adapter = "none" /\ ~c.assistant_adapter)
        /\ c.adapter = "clip_vision" => (~c.has_network /\ ~c.assistant_adapter)
        /\ ~(c.do_prior_divergence /\ c.inverted_mask_prior)
        /\ ~(c.do_prior_divergence /\ c.correct_pred_norm)
        /\ ~(c.inverted_mask_prior /\ c.correct_pred_norm) }

\* configurations of a job that trains a network for MaxSteps steps on plain
\* datasets of one batch per epoch, alone or with an adapter that attaches
\* additional-loss terms
LoopConfigs ==
    { c \in [steps : {MaxSteps}, single_item_batching : BOOLEAN,
             do_prior_divergence : BOOLEAN,
             inverted_mask_prior : {FALSE}, correct_pred_norm : {FALSE},
             has_network : {TRUE}, adapter : {"none", "reference"},
             assistant_adapter : {FALSE}, assistant_type : {"none"},
             match_adapter_chance : {0},
             embedding : {FALSE}, adapter_additional_loss : BOOLEAN,
             ds_reg : {FALSE}, ds_mask : {FALSE}, ds_control : {FALSE},
             dl_len : {1}, dl_reg_len : {0},
             save_every : {0}, sample_every : {0}] :
        c.adapter_additional_loss <=> (c.adapter = "reference") }

\* configurations of a job that samples and saves every step, every second
\* step or never while it trains for three steps on a plain dataset, with or
\* without a regularization dataset
SaveConfigs ==
    { c \in [steps : {3}, single_item_batching : {FALSE},
             do_prior_divergence : {FALSE},
             inverted_mask_prior : {FALSE}, correct_pred_norm : {FALSE},
             has_network : {TRUE}, adapter : {"none"},
             assistant_adapter : {FALSE}, assistant_type : {"none"},
             match_adapter_chance : {0},
             embedding : {FALSE}, adapter_additional_loss : {FALSE},
             ds_reg : BOOLEAN, ds_mask : {FALSE}, ds_control : {FALSE},
             dl_len : {1}, dl_reg_len : {0, 1},
             save_every : 0..2, sample_every : 0..2] :
        c.ds_reg <=> (c.dl_reg_len = 1) }

\* the data loaders of a job: up to MaxEpochLen batches per epoch, an empty
\* loader included, with or without a regularization loader
FetchConfigs ==
    { c \in [steps : {2 * MaxEpochLen + 2}, single_item_batching : {FALSE},
             do_prior_divergence : {FALSE},
             inverted_mask_prior : {FALSE}, correct_pred_norm : {FALSE},
             has_network : {TRUE}, adapter : {"none"},
             assistant_adapter : {FALSE}, assistant_type : {"none"},
             match_adapter_chance : {0},
             embedding : {FALSE}, adapter_additional_loss : {FALSE},
             ds_reg : BOOLEAN, ds_mask : {FALSE}, ds_control : {FALSE},
             dl_len : 0..MaxEpochLen, dl_reg_len : 0..MaxEpochLen,
             save_every : {0}, sample_every : {0}] :
        (~c.ds_reg) => c.dl_reg_len = 0 }

NoLoss == [val |-> 0, nan |-> FALSE, attached |-> FALSE, requires_grad |-> FALSE]

NoPre == [active |-> FALSE, adapter |-> FALSE, mult |-> << >>, unet |-> FALSE]

\* calculate_loss is not running
IdleAlg == [st |-> "idle"]

IdleSnr == [st |-> "idle"]

IdleRunner == [st |-> "idle"]

IdleSmp == [policy |-> "balanced", lo |-> 0, hi |-> 1, t |-> 0, events |-> << >>,
            st |-> "idle"]

IdleLossin == [correct_pred_norm |-> FALSE, inverted_mask_prior |-> FALSE,
               do_prior_divergence |-> FALSE, has_prior |-> FALSE, has_mask |-> FALSE,
               is_reg |-> FALSE, v_prediction |-> FALSE, target |-> "unset", st |-> "idle"]

Range(f) == { f[i] : i \in DOMAIN f }

Count(f, e) == Cardinality({ i \in DOMAIN f : f[i] = e })

\* ------------------------------------------------ hook_train_loop: set-up
\* network_weight_list = batch.get_network_weight_list(), doubled under
\* single_item_batching (SDTrainer.py 905-907)
NetworkWeightList(b) ==
    IF cfg.single_item_batching THEN b.weights \o b.weights ELSE b.weights

\* the multiplier of the step before left on the network
GradSetupMultiplier_Kept(b) == net_multiplier

\* network.multiplier = network_weight_list at the end of grad_setup
\* (SDTrainer.py 1031-1032)
GradSetupMultiplier(b) == NetworkWeightList(b)

\* match_adapter_assist (SDTrainer.py 923-932); match_adapter_chance is 0 or 1.0
MatchAdapterAssist ==
    cfg.assistant_adapter /\ cfg.match_adapter_chance = 1

\* the batch never split
NumSubs_Whole == Len(<< batch >>)

\* number of sub-batches of the zip loop and size of each (SDTrainer.py 1044-1083)
NumSubs == IF cfg.single_item_batching THEN batch.n ELSE 1

SubSize == IF cfg.single_item_batching THEN 1 ELSE batch.n

Fwd(kind, grad, bs) ==
    [kind |-> kind, grad |-> grad, bs |-> bs, mult |-> net_multiplier,
     active |-> net_is_active, training |-> unet_training, sub |-> sub,
     residuals |-> pred_kwargs]

\* one backward pass that reaches the trainable parameters
Contribution(l, src) == [step |-> step_num, sub |-> sub, nan |-> l.nan, src |-> src]

\* value of a computed loss: finite (0 or 1) or NaN
LossVals == { [val |-> 0, nan |-> FALSE], [val |-> 1, nan |-> FALSE], [val |-> 0, nan |-> TRUE] }

\* a loss computed from a gradient-tracked prediction
Computed(lv) == [val |-> lv.val, nan |-> lv.nan, attached |-> TRUE, requires_grad |-> TRUE]

\* hook_before_train_loop (SDTrainer.py 106-108)
HookBeforeTrainLoop ==
    /\ pc = "before_loop"
    /\ do_prior_prediction' = (do_prior_prediction \/ cfg.do_prior_divergence)
    /\ pc' = "fetch"
    /\ UNCHANGED << cfg, step_num, batch, is_grad_accumulation_step, network_weight_list,
                    match_adapter_assist, sub, path, net_is_active, net_multiplier,
                    unet_training, adapter_is_active, prior_pred, loss, grads,
                    sched_steps, pre, pending, trace, fwds, smp, lossin, loopVars, termVars, alg, snr, runner, pred_kwargs >>

\* ------------------------------------------------ training loop: the fetch
\* self.step_num at the top of the iteration whose loop variable `step` is
\* step_num: the attribute is assigned `step` at the end of every iteration
\* (BaseSDTrainProcess.py 58, 972, 1090)
StepNumAttr == IF step_num = 0 THEN 0 ELSE step_num - 1

\* self.start_step of a job that does not resume (BaseSDTrainProcess.py 59)
start_step == 0

\* is_save_step, is_sample_step; 0 stands for an option that is not set
\* (BaseSDTrainProcess.py 980-981)
IsSaveStep == cfg.save_every # 0 /\ StepNumAttr % cfg.save_every = 0

IsSampleStep == cfg.sample_every # 0 /\ StepNumAttr % cfg.sample_every = 0

\* a regularization batch on every even step
IsRegStep_EveryEvenStep == step_num % 2 = 0 /\ cfg.ds_reg

\* the branch that fetches from the regularization loader (BaseSDTrainProcess.py 983)
IsRegStep == step_num % 2 = 0 /\ cfg.ds_reg /\ ~IsSaveStep /\ ~IsSampleStep

\* a fetch that lets a second StopIteration pass for a batch
FetchNext_Unchecked(left, len) ==
    IF left > 0
    THEN [ok |-> TRUE, left |-> left - 1, events |-> << "get_batch" >>]
    ELSE [ok |-> TRUE, left |-> 0,
          events |-> << "get_batch", "stop_iteration", "iter", "setup_epoch", "get_batch" >>]

\* batch = next(iterator); on StopIteration the iterator is recreated, the
\* epoch set up and next() called again, outside the try
\* (BaseSDTrainProcess.py 984-996, 999-1010); left counts the batches the
\* iterator still yields, len the batches of one epoch
FetchNext(left, len) ==
    IF left > 0
    THEN [ok |-> TRUE, left |-> left - 1, events |-> << "get_batch" >>]
    ELSE IF len > 0
         THEN [ok |-> TRUE, left |-> len - 1,
               events |-> << "get_batch", "stop_iteration", "iter", "setup_epoch",
                             "get_batch" >>]
         ELSE [ok |-> FALSE, left |-> 0,
               events |-> << "get_batch", "stop_iteration", "iter", "setup_epoch",
                             "get_batch", "stop_iteration" >>]

\* the top of one iteration of the training loop: the batch is fetched from
\* the regularization loader or from the data loader (BaseSDTrainProcess.py 972-1012)
FetchBatch ==
    /\ pc = "fetch"
    /\ step_num < cfg.steps
    /\ LET r == IF IsRegStep
                THEN FetchNext(dataloader_iterator_reg, cfg.dl_reg_len)
                ELSE FetchNext(dataloader_iterator, cfg.dl_len)
       IN  /\ dataloader_iterator_reg' = IF IsRegStep THEN r.left ELSE dataloader_iterator_reg
           /\ dataloader_iterator' = IF IsRegStep THEN dataloader_iterator ELSE r.left
           /\ trace' = r.events
           /\ IF r.ok
              THEN /\ \E b \in Batches(cfg) :
                         /\ b.is_reg = IsRegStep
                         /\ batch' = b
                   /\ batch_cached' = TRUE
                   /\ pc' = "start"
              ELSE /\ pc' = "raised"
                   /\ UNCHANGED << batch, batch_cached >>
    /\ added_terms' = {}
    /\ UNCHANGED << cfg, step_num, is_grad_accumulation_step, network_weight_list,
                    match_adapter_assist, sub, path, do_prior_prediction, net_is_active,
                    net_multiplier, unet_training, adapter_is_active, prior_pred, loss,
                    grads, sched_steps, pre, pending, fwds, smp, lossin,
                    additional_loss, alg, snr, runner, pred_kwargs, checkpoints >>

\* hook_train_loop up to the end of grad_setup (BaseSDTrainProcess.py 1020,
\* SDTrainer.py 881-1033)
StartStep ==
    /\ pc = "start"
    /\ \E acc \in BOOLEAN : is_grad_accumulation_step' = acc
    /\ network_weight_list' = NetworkWeightList(batch)
    /\ net_multiplier' = IF cfg.has_network THEN GradSetupMultiplier(batch) ELSE net_multiplier
    /\ match_adapter_assist' = MatchAdapterAssist
    /\ grads' = {}
    /\ sub' = 1
    /\ path' = "none"
    /\ prior_pred' = FALSE
    /\ loss' = NoLoss
    /\ trace' = Append(trace, "zero_grad")
    /\ fwds' = << >>
    /\ pc' = "enter"
    /\ UNCHANGED << cfg, step_num, batch, do_prior_prediction, net_is_active, unet_training,
                    adapter_is_active, sched_steps, pre, pending,
                    smp, lossin, loopVars, termVars, alg, snr, runner, pred_kwargs >>

\* the value of adapter.additional_loss after the adapter encoded its
\* conditioning: an adapter with that attribute may attach a term
AttachedTerms ==
    IF cfg.adapter # "none" /\ cfg.adapter_additional_loss
    THEN { additional_loss, step_num + 1 }
    ELSE { additional_loss }

\* the residual arguments the oracle deletes from pred_kwargs
AdapterResiduals ==
    {"down_intrablock_additional_residuals", "down_block_additional_residuals",
     "mid_block_additional_residual"}

\* pred_kwargs = {} and the residuals of a T2I assistant adapter, encoded
\* before the prior prediction (SDTrainer.py 1200-1221)
T2IResiduals ==
    IF batch.has_adapter_img /\ cfg.assistant_type = "t2i"
    THEN {"down_intrablock_additional_residuals"}
    ELSE {}

\* the residuals of a ControlNet assistant adapter, encoded and added to
\* pred_kwargs after the prior prediction (SDTrainer.py 1402-1426)
ControlNetResiduals(kw) ==
    IF batch.has_adapter_img /\ cfg.assistant_type = "controlnet"
    THEN kw \cup {"down_block_additional_residuals", "mid_block_additional_residual"}
    ELSE kw

\* del pred_kwargs[...] of the three residual arguments when matching the
\* assistant adapter (SDTrainer.py 856-862)
PriorStrip(kw) == IF match_adapter_assist THEN kw \ AdapterResiduals ELSE kw

\* `with network:` is entered, the prompts are encoded and the adapter
\* encodes its conditioning (SDTrainer.py 1104-1333)
EnterNetwork ==
    /\ pc = "enter"
    /\ net_is_active' = IF cfg.has_network THEN TRUE ELSE net_is_active
    /\ path' = "none"
    /\ prior_pred' = FALSE
    /\ \E t \in AttachedTerms : additional_loss' = t
    /\ pred_kwargs' = T2IResiduals
    /\ trace' = Append(trace, "encode_prompt")
    /\ pc' = "prior_decide"
    /\ UNCHANGED << cfg, step_num, batch, is_grad_accumulation_step, network_weight_list,
                    match_adapter_assist, sub, do_prior_prediction, net_multiplier,
                    unet_training, adapter_is_active, loss, grads,
                    sched_steps, pre, pending, fwds, smp, lossin, loopVars,
                    added_terms, alg, snr, runner >>

\* ------------------------------------------------ prior-prediction oracle
\* the condition without the regularization disjunct
PriorRequired_NoRegPrior ==
    \/ (batch.has_adapter_img /\ cfg.assistant_adapter /\ match_adapter_assist)
    \/ do_prior_prediction
    \/ batch.guidance = "tnt"
    \/ (cfg.inverted_mask_prior /\ batch.has_mask)
    \/ cfg.correct_pred_norm

\* the condition under which get_prior_prediction is called (SDTrainer.py 1335-1357)
PriorRequired ==
    LET do_reg_prior == batch.is_reg /\ (cfg.has_network \/ cfg.adapter # "none")
        do_inverted_masked_prior == cfg.inverted_mask_prior /\ batch.has_mask
        do_guidance_prior == batch.guidance = "tnt"
    IN  \/ (batch.has_adapter_img /\ cfg.assistant_adapter /\ match_adapter_assist)
        \/ do_prior_prediction
        \/ do_guidance_prior
        \/ do_reg_prior
        \/ do_inverted_masked_prior
        \/ cfg.correct_pred_norm

\* isinstance(self.adapter, (IPAdapter, ReferenceAdapter, CustomAdapter)) (SDTrainer.py 780-784)
CanDisableAdapter == cfg.adapter = "reference"

\* get_prior_prediction up to the forward pass (SDTrainer.py 773-843)
PriorCall ==
    /\ pc = "prior_decide"
    /\ PriorRequired
    /\ pre' = [active |-> net_is_active, adapter |-> adapter_is_active,
               mult |-> net_multiplier, unet |-> unet_training]
    /\ net_is_active' = IF cfg.has_network THEN FALSE ELSE net_is_active
    /\ adapter_is_active' = IF CanDisableAdapter THEN FALSE ELSE adapter_is_active
    /\ unet_training' = FALSE
    /\ trace' = Append(trace, "prior_call")
    /\ pc' = "prior_fwd"
    /\ UNCHANGED << cfg, step_num, batch, is_grad_accumulation_step, network_weight_list,
                    match_adapter_assist, sub, path, do_prior_prediction, net_multiplier,
                    prior_pred, loss, grads, sched_steps, pending,
                    fwds, smp, lossin, loopVars, termVars, alg, snr, runner, pred_kwargs >>

\* sd.predict_noise returns, the residuals are deleted and the snapshotted
\* flags are restored (SDTrainer.py 844-870); back in hook_train_loop a
\* ControlNet adapter is encoded (1402-1426)
PriorPredict ==
    /\ pc = "prior_fwd"
    /\ fwds' = Append(fwds, Fwd("prior", FALSE, SubSize))
    /\ unet_training' = IF pre.unet THEN TRUE ELSE unet_training
    /\ adapter_is_active' = IF CanDisableAdapter THEN pre.adapter ELSE adapter_is_active
    /\ net_is_active' = IF cfg.has_network THEN pre.active ELSE net_is_active
    /\ prior_pred' = TRUE
    /\ pred_kwargs' = ControlNetResiduals(PriorStrip(pred_kwargs))
    /\ trace' = Append(trace, "prior_return")
    /\ pc' = "dispatch"
    /\ UNCHANGED << cfg, step_num, batch, is_grad_accumulation_step, network_weight_list,
                    match_adapter_assist, sub, path, do_prior_prediction, net_multiplier,
                    loss, grads, sched_steps, pre, pending, smp, lossin, loopVars, termVars, alg, snr, runner >>

\* sd.predict_noise raises inside get_prior_prediction: nothing after line 844 runs
PriorPredictRaises ==
    /\ pc = "prior_fwd"
    /\ trace' = Append(trace, "prior_raise")
    /\ pc' = "unwind"
    /\ UNCHANGED << cfg, step_num, batch, is_grad_accumulation_step, network_weight_list,
                    match_adapter_assist, sub, path, do_prior_prediction, net_is_active,
                    net_multiplier, unet_training, adapter_is_active, prior_pred, loss,
                    grads, sched_steps, pre, pending, fwds, smp, lossin, loopVars, termVars, alg, snr, runner, pred_kwargs >>

\* the oracle is not called: prior_pred stays None (SDTrainer.py 1335,
\* 1356-1357); a ControlNet adapter is encoded (1402-1426)
PriorSkip ==
    /\ pc = "prior_decide"
    /\ ~PriorRequired
    /\ prior_pred' = FALSE
    /\ pred_kwargs' = ControlNetResiduals(pred_kwargs)
    /\ pc' = "dispatch"
    /\ UNCHANGED << cfg, step_num, batch, is_grad_accumulation_step, network_weight_list,
                    match_adapter_assist, sub, path, do_prior_prediction, net_is_active,
                    net_multiplier, unet_training, adapter_is_active, loss, grads,
                    sched_steps, pre, pending, trace, fwds, smp, lossin, loopVars, termVars, alg, snr, runner >>

\* ------------------------------------------------------ guidance strategies
\* the strategies that set sd.network.is_active = False and sd.unet.eval()
\* before re-enabling the network (guidance.py 121-122, 241-242; the
\* polarity strategy has no such statements, 314-345)
StrategyDisablesNetwork(g) == g # "polarity"

\* a strategy whose baseline pass is commented out
StrategyHasBaseline_None(g) == FALSE

\* the strategies that issue a no-gradient baseline forward pass while the
\* network is disabled (guidance.py 246-252; commented out at 126-132)
StrategyHasBaseline(g) == g = "targeted"

\* get_guided_loss -> get_guidance_loss dispatches on the first item's
\* guidance_type (SDTrainer.py 1431-1445, guidance.py 398-439)
GuidanceCall ==
    /\ pc = "dispatch"
    /\ batch.guidance # "none"
    /\ batch.guidance \in GuidanceTypes
    /\ path' = "guidance"
    /\ pre' = [active |-> net_is_active, adapter |-> adapter_is_active,
               mult |-> net_multiplier, unet |-> unet_training]
    /\ trace' = Append(trace, "strategy_call")
    /\ pc' = IF StrategyDisablesNetwork(batch.guidance) THEN "g_disable" ELSE "g_enable"
    /\ UNCHANGED << cfg, step_num, batch, is_grad_accumulation_step, network_weight_list,
                    match_adapter_assist, sub, do_prior_prediction, net_is_active,
                    net_multiplier, unet_training, adapter_is_active, prior_pred, loss,
                    grads, sched_steps, pending, fwds, smp, lossin, loopVars, termVars, alg, snr, runner, pred_kwargs >>

\* raise NotImplementedError (guidance.py 440-441)
GuidanceNotImplemented ==
    /\ pc = "dispatch"
    /\ batch.guidance # "none"
    /\ batch.guidance \notin GuidanceTypes
    /\ path' = "guidance"
    /\ trace' = Append(trace, "guidance_not_implemented")
    /\ pc' = "unwind"
    /\ UNCHANGED << cfg, step_num, batch, is_grad_accumulation_step, network_weight_list,
                    match_adapter_assist, sub, do_prior_prediction, net_is_active,
                    net_multiplier, unet_training, adapter_is_active, prior_pred, loss,
                    grads, sched_steps, pre, pending, fwds, smp, lossin, loopVars, termVars, alg, snr, runner, pred_kwargs >>

\* sd.network.is_active = False; sd.unet.eval() (guidance.py 121-122, 241-242);
\* without a network sd.network is None and the assignment raises
GuidanceDisable ==
    /\ pc = "g_disable"
    /\ IF cfg.has_network
       THEN /\ net_is_active' = FALSE
            /\ unet_training' = FALSE
            /\ trace' = Append(trace, "strategy_disable")
            /\ pc' = IF StrategyHasBaseline(batch.guidance) THEN "g_baseline" ELSE "g_enable"
       ELSE /\ trace' = Append(trace, "strategy_raise")
            /\ pc' = "unwind"
            /\ UNCHANGED << net_is_active, unet_training >>
    /\ UNCHANGED << cfg, step_num, batch, is_grad_accumulation_step, network_weight_list,
                    match_adapter_assist, sub, path, do_prior_prediction, net_multiplier,
                    adapter_is_active, prior_pred, loss, grads,
                    sched_steps, pre, pending, fwds, smp, lossin, loopVars, termVars, alg, snr, runner, pred_kwargs >>

\* baseline_prediction = sd.predict_noise(...) under no_grad (guidance.py 246-259)
GuidanceBaseline ==
    /\ pc = "g_baseline"
    /\ fwds' = Append(fwds, Fwd("baseline", FALSE, batch.n))
    /\ trace' = Append(trace, "strategy_baseline")
    /\ pc' = "g_enable"
    /\ UNCHANGED << cfg, step_num, batch, is_grad_accumulation_step, network_weight_list,
                    match_adapter_assist, sub, path, do_prior_prediction, net_is_active,
                    net_multiplier, unet_training, adapter_is_active, prior_pred, loss,
                    grads, sched_steps, pre, pending, smp, lossin, loopVars, termVars, alg, snr, runner, pred_kwargs >>

\* the baseline forward pass raises
GuidanceBaselineRaises ==
    /\ pc = "g_baseline"
    /\ trace' = Append(trace, "strategy_raise")
    /\ pc' = "unwind"
    /\ UNCHANGED << cfg, step_num, batch, is_grad_accumulation_step, network_weight_list,
                    match_adapter_assist, sub, path, do_prior_prediction, net_is_active,
                    net_multiplier, unet_training, adapter_is_active, prior_pred, loss,
                    grads, sched_steps, pre, pending, fwds, smp, lossin, loopVars, termVars, alg, snr, runner, pred_kwargs >>

\* the two halves concatenated in the wrong order
CatNetworkWeightList_Swapped(ws) == Neg(ws) \o Pos(ws)

\* cat_network_weight_list = positive_network_weights + negative_network_weights
\* (guidance.py 136-138, 337-339)
CatNetworkWeightList(ws) == Pos(ws) \o Neg(ws)

\* the multiplier a strategy assigns before its gradient-tracked pass
\* (guidance.py 144, 266, 345)
StrategyMultiplier(g, ws) ==
    IF g = "targeted" THEN ws ELSE CatNetworkWeightList(ws)

\* batch size of the gradient-tracked pass: batch.latents for targeted, the
\* concatenation of the conditional and unconditional noisy latents otherwise
\* (guidance.py 113, 268-269, 334)
StrategyBatchSize(g, n) == IF g = "targeted" THEN n ELSE n + n

\* sd.unet.train(); sd.network.is_active = True; sd.network.multiplier = ...
\* (guidance.py 141-144, 263-266, 342-345)
GuidanceEnable ==
    /\ pc = "g_enable"
    /\ unet_training' = TRUE
    /\ IF cfg.has_network
       THEN /\ net_is_active' = TRUE
            /\ net_multiplier' = StrategyMultiplier(batch.guidance, network_weight_list)
            /\ trace' = Append(trace, "strategy_enable")
            /\ pc' = "g_forward"
       ELSE /\ trace' = Append(trace, "strategy_raise")
            /\ pc' = "unwind"
            /\ UNCHANGED << net_is_active, net_multiplier >>
    /\ UNCHANGED << cfg, step_num, batch, is_grad_accumulation_step, network_weight_list,
                    match_adapter_assist, sub, path, do_prior_prediction,
                    adapter_is_active, prior_pred, loss, grads,
                    sched_steps, pre, pending, fwds, smp, lossin, loopVars, termVars, alg, snr, runner, pred_kwargs >>

\* prediction = sd.predict_noise(...) with gradients (guidance.py 147-153, 268-274, 348-354)
GuidanceForward ==
    /\ pc = "g_forward"
    /\ fwds' = Append(fwds, Fwd("guided", TRUE, StrategyBatchSize(batch.guidance, batch.n)))
    /\ trace' = Append(trace, "strategy_forward")
    /\ pc' = "g_loss"
    /\ UNCHANGED << cfg, step_num, batch, is_grad_accumulation_step, network_weight_list,
                    match_adapter_assist, sub, path, do_prior_prediction, net_is_active,
                    net_multiplier, unet_training, adapter_is_active, prior_pred, loss,
                    grads, sched_steps, pre, pending, smp, lossin, loopVars, termVars, alg, snr, runner, pred_kwargs >>

\* the gradient-tracked forward pass raises
GuidanceForwardRaises ==
    /\ pc = "g_forward"
    /\ trace' = Append(trace, "strategy_raise")
    /\ pc' = "unwind"
    /\ UNCHANGED << cfg, step_num, batch, is_grad_accumulation_step, network_weight_list,
                    match_adapter_assist, sub, path, do_prior_prediction, net_is_active,
                    net_multiplier, unet_training, adapter_is_active, prior_pred, loss,
                    grads, sched_steps, pre, pending, fwds, smp, lossin, loopVars, termVars, alg, snr, runner, pred_kwargs >>

\* the loss returned without detach()
StrategyReturn_Attached(l) == l

\* loss = loss.detach(); loss.requires_grad_(True) (guidance.py 180-182, 293-295, 377-379)
StrategyReturn(l) == [l EXCEPT !.attached = FALSE, !.requires_grad = TRUE]

\* loss = ...mean(); loss.backward(); return the detached loss
\* (guidance.py 161-184, 276-297, 356-381)
GuidanceBackward ==
    /\ pc = "g_loss"
    /\ \E lv \in LossVals :
          /\ grads' = grads \cup { Contribution(Computed(lv), "strategy") }
          /\ pending' = pending \cup { Contribution(Computed(lv), "strategy") }
          /\ loss' = StrategyReturn(Computed(lv))
    /\ trace' = Append(Append(trace, "strategy_backward"), "strategy_return")
    /\ pc' = "nan_check"
    /\ UNCHANGED << cfg, step_num, batch, is_grad_accumulation_step, network_weight_list,
                    match_adapter_assist, sub, path, do_prior_prediction, net_is_active,
                    net_multiplier, unet_training, adapter_is_active, prior_pred,
                    sched_steps, pre, fwds, smp, lossin, loopVars, termVars, alg, snr, runner, pred_kwargs >>

\* ------------------------------------------------------------- direct path
\* noise_pred = self.sd.predict_noise(...) (SDTrainer.py 1447-1461)
DirectPredict ==
    /\ pc = "dispatch"
    /\ batch.guidance = "none"
    /\ path' = "direct"
    /\ fwds' = Append(fwds, Fwd("direct", TRUE, SubSize))
    /\ trace' = Append(trace, "predict_unet")
    /\ pc' = "calc_loss"
    /\ UNCHANGED << cfg, step_num, batch, is_grad_accumulation_step, network_weight_list,
                    match_adapter_assist, sub, do_prior_prediction, net_is_active,
                    net_multiplier, unet_training, adapter_is_active, prior_pred, loss,
                    grads, sched_steps, pre, pending, smp, lossin, loopVars, termVars, alg, snr, runner, pred_kwargs >>

\* the direct forward pass raises
DirectPredictRaises ==
    /\ pc = "dispatch"
    /\ batch.guidance = "none"
    /\ path' = "direct"
    /\ trace' = Append(trace, "predict_raise")
    /\ pc' = "unwind"
    /\ UNCHANGED << cfg, step_num, batch, is_grad_accumulation_step, network_weight_list,
                    match_adapter_assist, sub, do_prior_prediction, net_is_active,
                    net_multiplier, unet_training, adapter_is_active, prior_pred, loss,
                    grads, sched_steps, pre, pending, fwds, smp, lossin, loopVars, termVars, alg, snr, runner, pred_kwargs >>

\* loss = self.calculate_loss(...): an attached additional-loss term is
\* added to the loss and cleared (SDTrainer.py 1463-1473, 444-452)
CalculateLoss ==
    /\ pc = "calc_loss"
    /\ \E lv \in LossVals : loss' = Computed(lv)
    /\ IF cfg.adapter # "none" /\ cfg.adapter_additional_loss /\ additional_loss # 0
       THEN /\ added_terms' = added_terms \cup { additional_loss }
            /\ additional_loss' = 0
       ELSE UNCHANGED termVars
    /\ trace' = Append(trace, "calculate_loss")
    /\ pc' = "nan_check"
    /\ UNCHANGED << cfg, step_num, batch, is_grad_accumulation_step, network_weight_list,
                    match_adapter_assist, sub, path, do_prior_prediction, net_is_active,
                    net_multiplier, unet_training, adapter_is_active, prior_pred, grads,
                    sched_steps, pre, pending, fwds, smp, lossin, loopVars, alg, snr, runner, pred_kwargs >>

\* ------------------------------------------------- backward and step tail
\* the substitute without requires_grad_(True)
NanSubstitute_NoGrad(l) == [val |-> 0, nan |-> FALSE, attached |-> FALSE, requires_grad |-> FALSE]

\* loss = torch.zeros_like(loss).requires_grad_(True) (SDTrainer.py 1477)
NanSubstitute(l) == [val |-> 0, nan |-> FALSE, attached |-> FALSE, requires_grad |-> TRUE]

\* if torch.isnan(loss): ... (SDTrainer.py 1474-1477)
NanCheck ==
    /\ pc = "nan_check"
    /\ IF loss.nan
       THEN /\ loss' = NanSubstitute(loss)
            /\ trace' = Append(trace, "loss_is_nan")
       ELSE UNCHANGED << loss, trace >>
    /\ pc' = "backward"
    /\ UNCHANGED << cfg, step_num, batch, is_grad_accumulation_step, network_weight_list,
                    match_adapter_assist, sub, path, do_prior_prediction, net_is_active,
                    net_multiplier, unet_training, adapter_is_active, prior_pred, grads,
                    sched_steps, pre, pending, fwds, smp, lossin, loopVars, termVars, alg, snr, runner, pred_kwargs >>

\* loss = loss * loss_multiplier.mean(); loss.backward(); the `with network:`
\* block is left and the zip loop advances (SDTrainer.py 1480-1490, 1085, 1104).
\* backward() on a tensor that does not require grad raises.
Backward ==
    /\ pc = "backward"
    /\ IF loss.requires_grad
       THEN /\ grads' = IF loss.attached
                        THEN grads \cup { Contribution(loss, "orchestrator") } ELSE grads
            /\ pending' = IF loss.attached
                          THEN pending \cup { Contribution(loss, "orchestrator") } ELSE pending
            /\ trace' = Append(trace, "backward")
            /\ net_is_active' = IF cfg.has_network THEN FALSE ELSE net_is_active
            /\ IF sub < NumSubs
               THEN sub' = sub + 1 /\ pc' = "enter"
               ELSE sub' = sub /\ pc' = "opt"
       ELSE /\ trace' = Append(trace, "backward_raise")
            /\ pc' = "unwind"
            /\ UNCHANGED << grads, pending, net_is_active, sub >>
    /\ UNCHANGED << cfg, step_num, batch, is_grad_accumulation_step, network_weight_list,
                    match_adapter_assist, path, do_prior_prediction, net_multiplier,
                    unet_training, adapter_is_active, prior_pred, loss,
                    sched_steps, pre, fwds, smp, lossin, loopVars, termVars, alg, snr, runner, pred_kwargs >>

\* an exception leaves the `with network:` block and hook_train_loop; the
\* training loop does not catch it (SDTrainer.py 1104, BaseSDTrainProcess.py 1020)
Unwind ==
    /\ pc = "unwind"
    /\ net_is_active' = IF cfg.has_network THEN FALSE ELSE net_is_active
    /\ pc' = "raised"
    /\ UNCHANGED << cfg, step_num, batch, is_grad_accumulation_step, network_weight_list,
                    match_adapter_assist, sub, path, do_prior_prediction, net_multiplier,
                    unet_training, adapter_is_active, prior_pred, loss, grads,
                    sched_steps, pre, pending, trace, fwds, smp, lossin, loopVars, termVars, alg, snr, runner, pred_kwargs >>

\* clip_grad_norm_, optimizer.step(), optimizer.zero_grad() unless the step
\* is a gradient-accumulation step (SDTrainer.py 1495-1515)
\* the gradients clipped after they were applied
OptimizerEvents_ClipAfterStep == << "optimizer_step", "clip_grad", "zero_grad" >>

\* clip_grad_norm_, optimizer.step(), optimizer.zero_grad(set_to_none=True)
\* (SDTrainer.py 1495-1512)
OptimizerEvents == << "clip_grad", "optimizer_step", "zero_grad" >>

OptimizerPhase ==
    /\ pc = "opt"
    /\ IF ~is_grad_accumulation_step
       THEN /\ grads' = {}
            /\ pending' = {}
            /\ trace' = trace \o OptimizerEvents
       ELSE UNCHANGED << grads, pending, trace >>
    /\ pc' = "sched"
    /\ UNCHANGED << cfg, step_num, batch, is_grad_accumulation_step, network_weight_list,
                    match_adapter_assist, sub, path, do_prior_prediction, net_is_active,
                    net_multiplier, unet_training, adapter_is_active, prior_pred, loss,
                    sched_steps, pre, fwds, smp, lossin, loopVars, termVars, alg, snr, runner, pred_kwargs >>

\* the restore calls made only when the optimizer stepped
RestoreEvents_OnOptimizerStep ==
    IF is_grad_accumulation_step
    THEN << >>
    ELSE (IF cfg.embedding THEN << "restore_embeddings" >> ELSE << >>)
         \o (IF cfg.adapter = "clip_vision" THEN << "restore_adapter" >> ELSE << >>)

\* self.embedding.restore_embeddings() if an embedding is trained, then
\* self.adapter.restore_embeddings() for a ClipVisionAdapter (SDTrainer.py 1521-1528)
RestoreEvents ==
    (IF cfg.embedding THEN << "restore_embeddings" >> ELSE << >>)
    \o (IF cfg.adapter = "clip_vision" THEN << "restore_adapter" >> ELSE << >>)

\* the scheduler step skipped while gradients accumulate
SchedulerEvents_OnOptimizerStep ==
    IF is_grad_accumulation_step THEN << >> ELSE << "scheduler_step" >>

\* self.lr_scheduler.step(), on every step (SDTrainer.py 1517-1519)
SchedulerEvents == << "scheduler_step" >>

\* the scheduler steps and the pretrained embedding rows are restored
\* (SDTrainer.py 1517-1528)
SchedulerStep ==
    /\ pc = "sched"
    /\ sched_steps' = sched_steps + Len(SchedulerEvents)
    /\ trace' = trace \o SchedulerEvents \o RestoreEvents
    /\ pc' = "post"
    /\ UNCHANGED << cfg, step_num, batch, is_grad_accumulation_step, network_weight_list,
                    match_adapter_assist, sub, path, do_prior_prediction, net_is_active,
                    net_multiplier, unet_training, adapter_is_active, prior_pred, loss,
                    grads, pre, pending, fwds, smp, lossin, loopVars, termVars, alg, snr, runner, pred_kwargs >>

\* self.sample(self.step_num) and self.save(self.step_num) of an iteration that
\* is not the first one (BaseSDTrainProcess.py 1052-1068)
LoopCheckpoints ==
    LET call(kind) == [kind |-> kind, step |-> StepNumAttr, is_reg_step |-> batch.is_reg]
    IN  IF StepNumAttr # start_step
        THEN (IF IsSampleStep THEN {call("sample")} ELSE {})
                 \cup (IF IsSaveStep THEN {call("save")} ELSE {})
        ELSE {}

\* hook_train_loop returns and its locals go out of scope; the loop calls
\* batch.cleanup(), samples and saves, and finishes the step
\* (BaseSDTrainProcess.py 1021-1090)
EndStep ==
    /\ pc = "post"
    /\ step_num' = step_num + 1
    /\ checkpoints' = checkpoints \cup LoopCheckpoints
    /\ batch' = NoBatch
    /\ is_grad_accumulation_step' = FALSE
    /\ network_weight_list' = << >>
    /\ match_adapter_assist' = FALSE
    /\ sub' = 1
    /\ path' = "none"
    /\ prior_pred' = FALSE
    /\ loss' = NoLoss
    /\ pre' = NoPre
    /\ trace' = << >>
    /\ fwds' = << >>
    /\ batch_cached' = FALSE
    /\ added_terms' = {}
    /\ pred_kwargs' = {}
    /\ pc' = "fetch"
    /\ UNCHANGED << cfg, do_prior_prediction, net_is_active, net_multiplier,
                    unet_training, adapter_is_active, grads, sched_steps, pending,
                    smp, lossin, dataloader_iterator, dataloader_iterator_reg,
                    additional_loss, alg, snr, runner >>

\* ----------------------------------------------------------- specification
\* the state at the top of an iteration of the training loop, apart from the
\* step counters and the iterators
StepLocals ==
    /\ batch = NoBatch
    /\ is_grad_accumulation_step = FALSE
    /\ network_weight_list = << >>
    /\ match_adapter_assist = FALSE
    /\ sub = 1
    /\ path = "none"
    /\ do_prior_prediction = FALSE
    /\ net_is_active = FALSE
    /\ net_multiplier = << 1 >>
    /\ unet_training = TRUE
    /\ adapter_is_active = TRUE
    /\ prior_pred = FALSE
    /\ loss = NoLoss
    /\ grads = {}
    /\ pre = NoPre
    /\ pending = {}
    /\ trace = << >>
    /\ fwds = << >>
    /\ batch_cached = FALSE
    /\ additional_loss = 0
    /\ added_terms = {}
    /\ pred_kwargs = {}

\* state after construction: the network is created with multiplier 1.0
\* (BaseSDTrainProcess.py 760-765) and is inactive outside `with network:`
TrainState ==
    /\ step_num = 0
    /\ checkpoints = {}
    /\ sched_steps = 0
    /\ StepLocals

\* iter(dataloader), iter(dataloader_reg) (BaseSDTrainProcess.py 950-962)
FreshIterators ==
    /\ dataloader_iterator = cfg.dl_len
    /\ dataloader_iterator_reg = cfg.dl_reg_len

TrainInit ==
    /\ pc = "before_loop"
    /\ TrainState
    /\ FreshIterators
    /\ smp = IdleSmp
    /\ lossin = IdleLossin
    /\ alg = IdleAlg
    /\ snr = IdleSnr
    /\ runner = IdleRunner

Init == cfg \in StepConfigs /\ TrainInit

InitLoop == cfg \in LoopConfigs /\ TrainInit

Next ==
    \/ HookBeforeTrainLoop
    \/ FetchBatch
    \/ StartStep
    \/ EnterNetwork
    \/ PriorCall
    \/ PriorPredict
    \/ PriorPredictRaises
    \/ PriorSkip
    \/ GuidanceCall
    \/ GuidanceNotImplemented
    \/ GuidanceDisable
    \/ GuidanceBaseline
    \/ GuidanceBaselineRaises
    \/ GuidanceEnable
    \/ GuidanceForward
    \/ GuidanceForwardRaises
    \/ GuidanceBackward
    \/ DirectPredict
    \/ DirectPredictRaises
    \/ CalculateLoss
    \/ NanCheck
    \/ Backward
    \/ Unwind
    \/ OptimizerPhase
    \/ SchedulerStep
    \/ EndStep

Spec == Init /\ [][Next]_vars

SpecLoop == InitLoop /\ [][Next]_vars

InitSave == cfg \in SaveConfigs /\ TrainInit

SpecSave == InitSave /\ [][Next]_vars

\* ------------------------------------------------------- timestep sampler
Min(a, b) == IF a < b THEN a ELSE b

Max(a, b) == IF a > b THEN a ELSE b

\* toolkit.basic.value_map on the rational xnum/xden followed by .long():
\* (x - min_in) * (max_out - min_out) / (max_in - min_in) + min_out, truncated
ValueMapLong(xnum, xden, min_in, max_in, min_out, max_out) ==
    min_out + (((xnum - min_in * xden) * (max_out - min_out)) \div (xden * (max_in - min_in)))

\* no clamping at all
Clamp_None(x, lo, hi) == x

\* torch.Tensor.clamp(lo, hi): when lo > hi every element becomes hi
Clamp(x, lo, hi) == Min(Max(x, lo), hi)

\* the cubic warping of the random draw u = k / RandDenom, as the numerator
\* of a fraction over RandDenom^3 (BaseSDTrainProcess.py 521-526)
CubicWarp(policy, k) ==
    IF policy = "style"
    THEN k * k * k * NumTrainTimesteps
    ELSE (RandDenom * RandDenom * RandDenom - k * k * k) * NumTrainTimesteps

\* timestep of one batch item for style and content (BaseSDTrainProcess.py 521-538)
WarpedTimestep(policy, lo, hi, k) ==
    Clamp(ValueMapLong(CubicWarp(policy, k), RandDenom * RandDenom * RandDenom,
                       0, NumTrainTimesteps - 1, lo, hi),
          lo + 1, hi - 1)

\* the values torch.randint(lo, hi) can return (BaseSDTrainProcess.py 541-547)
BalancedTimesteps(lo, hi) == lo .. (hi - 1)

\* the timesteps the sampler can return for one item (BaseSDTrainProcess.py 511-549)
SampledTimesteps(policy, lo, hi) ==
    IF policy \in {"style", "content"}
    THEN { WarpedTimestep(policy, lo, hi, k) : k \in 0..(RandDenom - 1) }
    ELSE BalancedTimesteps(lo, hi)

\* content_or_style as configured: the three policies and a value that is
\* none of them
Policies == {"balanced", "style", "content", "sigmoid"}

SamplerConfigs ==
    { c \in [policy : Policies, lo : 0..MaxDenoise,
             hi : 0..MaxDenoise, t : {0}, events : {<< >>}, st : {"ready"}] : c.lo < c.hi }

\* every value taken for a policy
PolicyKnown_Any(policy) == policy \in Policies

\* content_or_style is matched by a branch of the sampler
\* (BaseSDTrainProcess.py 511, 540, 548)
PolicyKnown(policy) == policy \in {"style", "content", "balanced"}

\* process_general_training_batch from prepare_noise on: the timestep of an
\* item, the noise and the noisy latents, or the ValueError of an unknown
\* policy; every training step draws again (BaseSDTrainProcess.py 505-590)
SampleTimesteps ==
    /\ smp.st \in {"ready", "sampled"}
    /\ IF PolicyKnown(smp.policy)
       THEN \E t \in SampledTimesteps(smp.policy, smp.lo, smp.hi) :
               smp' = [smp EXCEPT !.t = t, !.st = "sampled",
                                  !.events = << "set_timesteps", "timesteps", "get_latent_noise",
                                                "add_noise", "return" >>]
       ELSE smp' = [smp EXCEPT !.st = "raised",
                               !.events = << "set_timesteps", "raise" >>]
    /\ UNCHANGED trainVars
    /\ UNCHANGED << lossin, alg, snr, runner >>

\* -------------------------------------------- calculate_loss: the target
\* the velocity branch tested before the prior branch
SelectTarget_VelocityFirst(f) ==
    IF f.correct_pred_norm \/ (f.inverted_mask_prior /\ f.has_prior /\ f.has_mask)
    THEN IF f.correct_pred_norm /\ ~f.is_reg /\ f.has_prior
         THEN "norm_corrected_noise"
         ELSE "noise"
    ELSE IF f.v_prediction
         THEN "velocity"
         ELSE IF f.has_prior /\ ~f.do_prior_divergence THEN "prior_pred" ELSE "noise"

\* the regression target calculate_loss selects, for loss_target noise
\* without train_turbo (SDTrainer.py 271-329)
SelectTarget(f) ==
    IF f.correct_pred_norm \/ (f.inverted_mask_prior /\ f.has_prior /\ f.has_mask)
    THEN IF f.correct_pred_norm /\ ~f.is_reg /\ f.has_prior
         THEN "norm_corrected_noise"
         ELSE "noise"
    ELSE IF f.has_prior /\ ~f.do_prior_divergence
         THEN "prior_pred"
         ELSE IF f.v_prediction THEN "velocity" ELSE "noise"

\* hook_train_loop passes a prior prediction whenever one of these flags
\* requests it (SDTrainer.py 1342-1357)
PriorForced(f) ==
    f.correct_pred_norm \/ f.do_prior_divergence \/ (f.inverted_mask_prior /\ f.has_mask)

LossInputs ==
    { f \in [correct_pred_norm : BOOLEAN, inverted_mask_prior : BOOLEAN,
             do_prior_divergence : BOOLEAN, has_prior : BOOLEAN, has_mask : BOOLEAN,
             is_reg : BOOLEAN, v_prediction : BOOLEAN, target : {"unset"},
             st : {"ready"}] : PriorForced(f) => f.has_prior }

\* calculate_loss up to the selection of the target (SDTrainer.py 239-331)
SelectLossTarget ==
    /\ lossin.st = "ready"
    /\ lossin' = [lossin EXCEPT !.target = SelectTarget(lossin), !.st = "done"]
    /\ UNCHANGED trainVars
    /\ UNCHANGED << smp, alg, snr, runner >>

\* -------------------------------- calculate_loss: signal-to-noise weighting
\* None for an option that is not set
None == 0 - 1

\* snr_gamma and min_snr_gamma in millionths
Gammas == { None } \cup 0..MaxGamma

SnrInputs ==
    [train_turbo : BOOLEAN, learnable_snr_gos : BOOLEAN, snr_gamma : Gammas,
     min_snr_gamma : Gammas, applied : { << >> }, st : {"ready"}]

\* `gamma is not None and gamma > 0.000001 and not ignore_snr`; ignore_snr
\* is never set (SDTrainer.py 336, 436, 440)
GammaSet(g) == g # None /\ g > GammaEps

\* the three tests as independent ifs
SnrApplied_Independent(c) ==
    IF c.train_turbo
    THEN << >>
    ELSE (IF c.learnable_snr_gos THEN << "learnable" >> ELSE << >>)
         \o (IF GammaSet(c.snr_gamma) THEN << "fixed" >> ELSE << >>)
         \o (IF GammaSet(c.min_snr_gamma) THEN << "min" >> ELSE << >>)

\* the reweightings calculate_loss applies, in order (SDTrainer.py 432-442)
SnrApplied(c) ==
    IF c.train_turbo
    THEN << >>
    ELSE IF c.learnable_snr_gos
         THEN << "learnable" >>
         ELSE IF GammaSet(c.snr_gamma)
              THEN << "fixed" >>
              ELSE IF GammaSet(c.min_snr_gamma) THEN << "min" >> ELSE << >>

\* calculate_loss from the mean over the elements to the SNR reweighting
\* (SDTrainer.py 432-442)
ApplySnr ==
    /\ snr.st = "ready"
    /\ snr' = [snr EXCEPT !.applied = SnrApplied(snr), !.st = "done"]
    /\ UNCHANGED trainVars
    /\ UNCHANGED << smp, lossin, alg, runner >>

\* a process that is not training: the sampler and calculate_loss are
\* exercised on their own
InitSampler ==
    /\ cfg \in { c \in LoopConfigs : ~c.single_item_batching /\ ~c.do_prior_divergence
                                  /\ c.adapter = "none" }
    /\ pc = "idle"
    /\ TrainState
    /\ FreshIterators
    /\ smp \in SamplerConfigs
    /\ lossin = IdleLossin
    /\ alg = IdleAlg
    /\ snr = IdleSnr
    /\ runner = IdleRunner

InitLoss ==
    /\ cfg \in { c \in LoopConfigs : ~c.single_item_batching /\ ~c.do_prior_divergence
                                  /\ c.adapter = "none" }
    /\ pc = "idle"
    /\ TrainState
    /\ FreshIterators
    /\ smp = IdleSmp
    /\ lossin \in LossInputs
    /\ alg = IdleAlg
    /\ snr = IdleSnr
    /\ runner = IdleRunner

InitSnr ==
    /\ cfg \in { c \in LoopConfigs : ~c.single_item_batching /\ ~c.do_prior_divergence
                                  /\ c.adapter = "none" }
    /\ pc = "idle"
    /\ TrainState
    /\ FreshIterators
    /\ smp = IdleSmp
    /\ lossin = IdleLossin
    /\ alg = IdleAlg
    /\ snr \in SnrInputs
    /\ runner = IdleRunner

\* ---- calculate_loss: the loss algebra (SDTrainer.py 239-452) ----
\* One item of NumElems elements; every loss below is the code's loss times
\* NumElems, so that the means stay integers.

Elems == 1..NumElems

Vals == {0, 1}

Tensors == [Elems -> Vals]

Zeros == [i \in Elems |-> 0]

Ones == [i \in Elems |-> 1]

\* dataset_config.mask_min_value (SDTrainer.py 303)
MaskMinValue == 0

\* train_config.inverted_mask_prior_multiplier (SDTrainer.py 417)
InvertedMaskPriorMultiplier == 1

\* batch.sigmas, one value for the item (SDTrainer.py 345-346)
Sigma == 1

Abs(x) == IF x < 0 THEN 0 - x ELSE x

\* torch.nn.functional.l1_loss(..., reduction="none")
L1Loss(p, t) == [i \in Elems |-> Abs(p[i] - t[i])]

\* torch.nn.functional.mse_loss(..., reduction="none")
MseLoss(p, t) == [i \in Elems |-> (p[i] - t[i]) * (p[i] - t[i])]

RECURSIVE SumUpTo(_, _)
SumUpTo(f, k) == IF k = 0 THEN 0 ELSE f[k] + SumUpTo(f, k - 1)

\* NumElems * f.mean([1, 2, 3])
MeanTimesElems(f) == SumUpTo(f, NumElems)

\* the arguments and options of a call with loss_target noise; without a
\* mask mask_multiplier is a tensor of ones (SDTrainer.py 967)
NoiseTargetInputs ==
    { a \in [loss_target : {"noise"}, loss_type : {"mae", "mse"},
             do_prior_divergence : BOOLEAN, inverted_mask_prior : BOOLEAN,
             pred : Tensors, pred_nan : BOOLEAN, noise : Tensors,
             has_prior : BOOLEAN, prior_pred : Tensors, prior_nan : BOOLEAN,
             has_mask : BOOLEAN, mask_multiplier : Tensors,
             noisy_latents : {Zeros}, latents : {Zeros},
             loss_multiplier : {1, 2}, snr_weight : {None, 2},
             additional_loss : {None, 1},
             target : {Zeros}, loss : {NoLoss}, added : {None}, printed : {<< >>},
             st : {"ready"}] :
        /\ (a.do_prior_divergence \/ (a.inverted_mask_prior /\ a.has_mask)) => a.has_prior
        /\ ~a.has_prior => a.prior_pred = Zeros
        /\ a.prior_nan => (a.has_prior /\ a.prior_pred = Zeros)
        /\ ~a.has_mask => a.mask_multiplier = Ones
        /\ a.pred_nan => a.pred = Zeros }

\* the arguments of a plain call with loss_target source
SourceTargetInputs ==
    [loss_target : {"source"}, loss_type : {"mae", "mse"},
     do_prior_divergence : {FALSE}, inverted_mask_prior : {FALSE},
     pred : Tensors, pred_nan : {FALSE}, noise : {Zeros},
     has_prior : {FALSE}, prior_pred : {Zeros}, prior_nan : {FALSE},
     has_mask : {FALSE}, mask_multiplier : {Ones},
     noisy_latents : Tensors, latents : Tensors,
     loss_multiplier : {1}, snr_weight : {None},
     additional_loss : {None},
     target : {Zeros}, loss : {NoLoss}, added : {None}, printed : {<< >>},
     st : {"ready"}]

AlgInputs == NoiseTargetInputs \cup SourceTargetInputs

\* the target selected with the prior-prediction conditions inverted
AlgTarget_PriorOnDivergence(a) ==
    IF a.loss_target = "source"
    THEN a.latents
    ELSE IF a.has_prior /\ a.do_prior_divergence /\ ~(a.inverted_mask_prior /\ a.has_mask)
         THEN a.prior_pred
         ELSE a.noise

\* the prior prediction is the target of the call (SDTrainer.py 318-321)
TargetIsPrior(a) ==
    /\ a.loss_target = "noise"
    /\ SelectTarget([correct_pred_norm |-> FALSE,
                     inverted_mask_prior |-> a.inverted_mask_prior,
                     do_prior_divergence |-> a.do_prior_divergence,
                     has_prior |-> a.has_prior, has_mask |-> a.has_mask,
                     is_reg |-> FALSE, v_prediction |-> FALSE]) = "prior_pred"

\* the target tensor of the call (SDTrainer.py 271-329, 347-349)
AlgTarget(a) ==
    IF a.loss_target = "source"
    THEN a.latents
    ELSE IF TargetIsPrior(a) THEN a.prior_pred ELSE a.noise

\* the elementwise loss before the modifiers (SDTrainer.py 338-396)
ElementLoss(a) ==
    IF a.loss_target = "source"
    THEN LET denoised == [i \in Elems |-> a.pred[i] * (0 - Sigma) + a.noisy_latents[i]]
         IN  MseLoss(denoised, AlgTarget(a))
    ELSE IF a.loss_type = "mae"
         THEN L1Loss(a.pred, AlgTarget(a))
         ELSE MseLoss(a.pred, AlgTarget(a))

\* mse_loss(pred, prior_pred) * -1.0 (SDTrainer.py 398-399)
DivergenceTerm(a) ==
    IF a.do_prior_divergence /\ a.has_prior
    THEN [i \in Elems |-> 0 - MseLoss(a.pred, a.prior_pred)[i]]
    ELSE Zeros

\* the mask left out of the product
MaskedLoss_Unmasked(a) ==
    [i \in Elems |-> ElementLoss(a)[i] + DivergenceTerm(a)[i]]

\* loss = loss * mask_multiplier (SDTrainer.py 398-407)
MaskedLoss(a) ==
    [i \in Elems |-> (ElementLoss(a)[i] + DivergenceTerm(a)[i]) * a.mask_multiplier[i]]

\* the mask itself in place of its complement
PriorMaskMultiplier_Same(a) == a.mask_multiplier

\* prior_mask_multiplier = 1.0 - value_map(mask_multiplier, mask_min_value, 1, 0, 1)
\* (SDTrainer.py 298-309)
PriorMaskMultiplier(a) ==
    [i \in Elems |-> 1 - ValueMapLong(a.mask_multiplier[i], 1, MaskMinValue, 1, 0, 1)]

\* prior_loss is computed at all (SDTrainer.py 409-410)
HasPriorLoss(a) ==
    a.inverted_mask_prior /\ a.has_prior /\ a.has_mask /\ a.loss_target = "noise"

\* NumElems * prior_loss (SDTrainer.py 409-424)
PriorLoss(a) ==
    LET e == IF a.loss_type = "mae"
             THEN L1Loss(a.pred, a.prior_pred)
             ELSE MseLoss(a.pred, a.prior_pred)
    IN  MeanTimesElems([i \in Elems |->
                          e[i] * PriorMaskMultiplier(a)[i] * InvertedMaskPriorMultiplier])

\* torch.isnan(prior_loss).any(): a NaN of the prediction or of the prior
\* prediction is a NaN of their elementwise loss (SDTrainer.py 411-418)
PriorLossNan(a) == a.pred_nan \/ a.prior_nan

\* a prior loss that is added whatever it holds
PriorLossKept_Always(a) == HasPriorLoss(a)

\* prior_loss is not None at the sum (SDTrainer.py 418-430)
PriorLossKept(a) == HasPriorLoss(a) /\ ~PriorLossNan(a)

\* NumElems * the loss calculate_loss returns for finite tensors, with the
\* given prior loss added (SDTrainer.py 426-452)
LossValueWith(a, prior_loss) ==
    LET per_item == MeanTimesElems(MaskedLoss(a)) * a.loss_multiplier
        with_prior == per_item + prior_loss
        weighted == IF a.snr_weight # None THEN with_prior * a.snr_weight ELSE with_prior
    IN  IF a.additional_loss # None
        THEN weighted + NumElems * a.additional_loss
        ELSE weighted

\* NumElems * the loss calculate_loss returns for finite tensors
\* (SDTrainer.py 393-452)
LossValue(a) == LossValueWith(a, IF PriorLossKept(a) THEN PriorLoss(a) ELSE 0)

\* the main term holds a NaN: the prediction does, or the prior prediction
\* does and is the target or enters the divergence penalty
\* (SDTrainer.py 393-407)
MainLossNan(a) ==
    \/ a.pred_nan
    \/ (a.prior_nan /\ (a.do_prior_divergence \/ TargetIsPrior(a)))

\* the returned loss holds a NaN
LossNan(a) == MainLossNan(a) \/ (PriorLossKept(a) /\ PriorLossNan(a))

\* one call of calculate_loss: a NaN is a NaN in every product and mean it
\* enters, a NaN prior loss is reported and dropped (SDTrainer.py 418-420),
\* and the adapter's term is cleared (SDTrainer.py 447-450)
ComputeLoss ==
    /\ alg.st = "ready"
    /\ alg' = [alg EXCEPT !.st = "done",
                          !.target = AlgTarget(alg),
                          !.loss = [val |-> IF LossNan(alg) THEN 0 ELSE LossValue(alg),
                                    nan |-> LossNan(alg),
                                    attached |-> TRUE, requires_grad |-> TRUE],
                          !.printed = IF HasPriorLoss(alg) /\ PriorLossNan(alg)
                                      THEN << "Prior loss is nan" >>
                                      ELSE << >>,
                          !.added = alg.additional_loss,
                          !.additional_loss = None]
    /\ UNCHANGED trainVars
    /\ UNCHANGED << smp, lossin, snr, runner >>

InitAlg ==
    /\ cfg \in { c \in LoopConfigs : ~c.single_item_batching /\ ~c.do_prior_divergence
                                  /\ c.adapter = "none" }
    /\ pc = "idle"
    /\ TrainState
    /\ FreshIterators
    /\ smp = IdleSmp
    /\ lossin = IdleLossin
    /\ alg \in AlgInputs
    /\ snr = IdleSnr
    /\ runner = IdleRunner

NextAlg == ComputeLoss

SpecAlg == InitAlg /\ [][NextAlg]_vars

\* ---- run.py main: the job runner (run.py 41-61) ----

\* what running one config file does: get_job, job.run or job.cleanup raises
\* an Exception, or none does
JobOutcomes == {"completed", "get_job_raises", "run_raises", "cleanup_raises"}

\* the parsed arguments: one config file or more, with or without --recover
RunnerInputs ==
    { [n |-> n, recover |-> r, next |-> 1, attempts |-> [i \in 1..n |-> 0],
       outcomes |-> << >>, jobs_completed |-> 0, jobs_failed |-> 0,
       printed |-> << >>, raised |-> FALSE, st |-> "running"] :
        n \in 1..MaxJobs, r \in BOOLEAN }

\* a runner that goes on after every failure
AbortsOnFailure_Never(recover) == recover /\ ~recover

\* if not args.recover (run.py 59)
AbortsOnFailure(recover) == ~recover

\* one iteration of the loop over config_file_list; the loop ends when the
\* list is exhausted or the exception is re-raised (run.py 50-61)
RunJob ==
    /\ runner.st = "running"
    /\ \E o \in JobOutcomes :
          LET failed == o # "completed"
              completed == IF failed THEN runner.jobs_completed
                                     ELSE runner.jobs_completed + 1
              failures == IF failed THEN runner.jobs_failed + 1 ELSE runner.jobs_failed
              abort == failed /\ AbortsOnFailure(runner.recover)
          IN  runner' =
                [runner EXCEPT
                   !.attempts[runner.next] = @ + 1,
                   !.outcomes = Append(@, o),
                   !.jobs_completed = completed,
                   !.jobs_failed = failures,
                   !.printed = IF abort
                               THEN @ \o << "error", << "end_message", completed, failures >> >>
                               ELSE IF failed THEN Append(@, "error") ELSE @,
                   !.raised = abort,
                   !.next = IF abort THEN @ ELSE @ + 1,
                   !.st = IF abort THEN "aborted"
                          ELSE IF runner.next = runner.n THEN "done" ELSE "running"]
    /\ UNCHANGED trainVars
    /\ UNCHANGED << smp, lossin, alg, snr >>

InitRunner ==
    /\ cfg \in { c \in LoopConfigs : ~c.single_item_batching /\ ~c.do_prior_divergence
                                  /\ c.adapter = "none" }
    /\ pc = "idle"
    /\ TrainState
    /\ FreshIterators
    /\ smp = IdleSmp
    /\ lossin = IdleLossin
    /\ alg = IdleAlg
    /\ snr = IdleSnr
    /\ runner \in RunnerInputs

NextRunner == RunJob

SpecRunner == InitRunner /\ [][NextRunner]_vars

\* the batches the loop has fetched from the regularization loader and from
\* the data loader before iteration s (BaseSDTrainProcess.py 983, 998)
RegFetches(c, s) == IF c.ds_reg THEN (s + 1) \div 2 ELSE 0

DataFetches(c, s) == s - RegFetches(c, s)

\* the batches an iterator still yields after k fetches that all succeeded
LeftAfter(len, k) ==
    IF k = 0 THEN len ELSE len - 1 - ((k - 1) % len)

\* the top of iteration step_num of a run in which every earlier step completed
InitFetch ==
    /\ cfg \in FetchConfigs
    /\ pc = "fetch"
    /\ step_num \in 0..(cfg.steps - 1)
    /\ RegFetches(cfg, step_num) > 0 => cfg.dl_reg_len > 0
    /\ DataFetches(cfg, step_num) > 0 => cfg.dl_len > 0
    /\ sched_steps = step_num
    /\ checkpoints = {}
    /\ StepLocals
    /\ dataloader_iterator = LeftAfter(cfg.dl_len, DataFetches(cfg, step_num))
    /\ dataloader_iterator_reg = LeftAfter(cfg.dl_reg_len, RegFetches(cfg, step_num))
    /\ smp = IdleSmp
    /\ lossin = IdleLossin
    /\ alg = IdleAlg
    /\ snr = IdleSnr
    /\ runner = IdleRunner

NextFetch == FetchBatch

SpecFetch == InitFetch /\ [][NextFetch]_vars

NextSnr == ApplySnr

SpecSnr == InitSnr /\ [][NextSnr]_vars

NextSampler == SampleTimesteps

NextLoss == SelectLossTarget

SpecSampler == InitSampler /\ [][NextSampler]_vars

SpecLoss == InitLoss /\ [][NextLoss]_vars

\* ================================================================== claims
Last(f) == f[Len(f)]

\* events of the current step since the last call of a guidance strategy
SinceStrategyCall ==
    LET calls == { i \in DOMAIN trace : trace[i] = "strategy_call" }
        from == IF calls = {} THEN 1 ELSE (CHOOSE i \in calls : \A j \in calls : j <= i)
    IN  SubSeq(trace, from, Len(trace))

\* forward passes of the current sub-batch, in order
SubFwds(kind) == SelectSeq(fwds, LAMBDA f : f.sub = sub /\ f.kind = kind)

\* C1: whenever control leaves get_prior_prediction, by return or because
\* sd.predict_noise raised, network.is_active and adapter.is_active have their
\* pre-call values.
C1_OracleRestoresFlags ==
    (pc \in {"dispatch", "unwind"} /\ trace # << >>
        /\ Last(trace) \in {"prior_return", "prior_raise"})
    => (net_is_active = pre.active /\ adapter_is_active = pre.adapter)

\* C2: when a guidance strategy returns or raises, network.is_active and
\* network.multiplier equal the values they had when it was called.
C2_StrategyRestoresNetwork ==
    (pc \in {"nan_check", "unwind"} /\ trace # << >>
        /\ Last(trace) \in {"strategy_return", "strategy_raise"})
    => (net_is_active = pre.active /\ net_multiplier = pre.mult)

\* C3: a gradient-accumulation step performs no optimizer step and zeroes no
\* gradient, so every gradient produced since the last optimizer step is
\* still in the gradient buffers, in particular when the next
\* non-accumulation step reaches its optimizer step.
C3_AccumulatedGradientsKept ==
    /\ pending \subseteq grads
    /\ is_grad_accumulation_step => Count(trace, "optimizer_step") = 0

\* C4: a NaN loss does not make hook_train_loop raise: it is replaced by a
\* zero-valued scalar that requires grad, the backward pass accepts it, and
\* the step goes on through backward, the optimizer step (unless
\* accumulating) and the scheduler step.
C4_NanLossSubstituted ==
    /\ pc = "backward" => ~loss.nan
    /\ (pc = "backward" /\ Last(trace) = "loss_is_nan")
          => (loss.val = 0 /\ loss.requires_grad /\ ~loss.attached)
    /\ Count(trace, "backward_raise") = 0
    /\ (pc = "post" /\ Count(trace, "loss_is_nan") > 0)
          => /\ Count(trace, "backward") = NumSubs
             /\ Count(trace, "scheduler_step") = 1
             /\ (Count(trace, "optimizer_step") = 1) <=> ~is_grad_accumulation_step

C4_Witness ==
    /\ pc = "post"
    /\ Count(trace, "loss_is_nan") > 0
    /\ Count(trace, "optimizer_step") = 1

\* C5 as stated: every sampled timestep lies strictly between
\* min_denoising_steps and max_denoising_steps, for every policy.
C5_StrictlyInside ==
    smp.st = "sampled" => (smp.lo < smp.t /\ smp.t < smp.hi)

\* C5 amended: every sampled timestep t satisfies min <= t < max; for style
\* and content, whose result is clamped to [min + 1, max - 1], also min < t
\* provided max - min >= 2.
C5_InsideHalfOpen ==
    smp.st = "sampled" =>
        /\ smp.lo <= smp.t
        /\ smp.t < smp.hi
        /\ (smp.policy \in {"style", "content"} /\ smp.hi - smp.lo >= 2) => smp.lo < smp.t

C5_Witness ==
    /\ smp.st = "sampled"
    /\ smp.policy = "content"
    /\ smp.hi - smp.lo >= 2
    /\ smp.t = smp.hi - 1

\* C6 as stated: the target follows the priority (a) norm-corrected noise,
\* (b) masked blend of noise and prior, (c) prior, (d) velocity, (e) noise.
C6_StatedPriority ==
    lossin.st = "done" =>
        lossin.target =
            IF lossin.correct_pred_norm /\ lossin.has_prior THEN "norm_corrected_noise"
            ELSE IF lossin.inverted_mask_prior /\ lossin.has_mask THEN "masked_blend"
            ELSE IF lossin.has_prior /\ ~lossin.do_prior_divergence THEN "prior_pred"
            ELSE IF lossin.v_prediction THEN "velocity"
            ELSE "noise"

\* C6 amended: with correct_pred_norm, or with inverted_mask_prior, a prior
\* prediction and a mask, the target is the noise: norm-corrected when
\* correct_pred_norm is set, a prior prediction exists and the batch has no
\* regularization item, raw otherwise (never a blend). Otherwise it is the
\* prior prediction if one exists and prior divergence is not requested,
\* else the velocity if the model uses v-prediction, else the raw noise.
C6_TargetPriority ==
    lossin.st = "done" =>
        LET f == lossin
            noise_branch == f.correct_pred_norm
                            \/ (f.inverted_mask_prior /\ f.has_prior /\ f.has_mask)
            corrected == f.correct_pred_norm /\ f.has_prior /\ ~f.is_reg
            prior_branch == ~noise_branch /\ f.has_prior /\ ~f.do_prior_divergence
            velocity_branch == ~noise_branch /\ ~prior_branch /\ f.v_prediction
        IN  /\ (noise_branch /\ corrected) => f.target = "norm_corrected_noise"
            /\ (noise_branch /\ ~corrected) => f.target = "noise"
            /\ prior_branch => f.target = "prior_pred"
            /\ velocity_branch => f.target = "velocity"
            /\ (~noise_branch /\ ~prior_branch /\ ~velocity_branch) => f.target = "noise"

C6_Witness ==
    /\ lossin.st = "done"
    /\ lossin.inverted_mask_prior /\ lossin.has_mask /\ lossin.has_prior
    /\ ~lossin.correct_pred_norm
    /\ lossin.v_prediction
    /\ lossin.target = "noise"

\* C7 as stated: every strategy disables the network and puts the base model
\* in eval mode, issues at least one no-gradient baseline pass in that state,
\* and only then re-enables the network for the gradient-tracked pass.
C7_BaselineBeforeGuided ==
    pc = "g_loss" =>
        /\ Count(SinceStrategyCall, "strategy_disable") = 1
        /\ Len(SubFwds("baseline")) >= 1
        /\ \A i \in DOMAIN SubFwds("baseline") :
              LET f == SubFwds("baseline")[i] IN ~f.active /\ ~f.training /\ ~f.grad
        /\ Last(fwds).kind = "guided" /\ Last(fwds).active /\ Last(fwds).training

\* C7 amended: targeted disables the network and puts the base model in eval
\* mode, issues one no-gradient baseline pass in that state and then
\* re-enables the network; targeted_polarity disables and re-enables the
\* network without any baseline pass; polarity never disables the network
\* and issues no baseline pass. In all three the gradient-tracked pass is
\* issued with the network active and the base model in train mode, after
\* every baseline pass.
C7_StrategyPhases ==
    pc = "g_loss" =>
        /\ Last(fwds).kind = "guided" /\ Last(fwds).grad
        /\ Last(fwds).active /\ Last(fwds).training
        /\ Len(SubFwds("guided")) = 1
        /\ Len(SubFwds("baseline")) = (IF batch.guidance = "targeted" THEN 1 ELSE 0)
        /\ \A i \in DOMAIN SubFwds("baseline") :
              LET f == SubFwds("baseline")[i] IN ~f.active /\ ~f.training /\ ~f.grad
        /\ Count(SinceStrategyCall, "strategy_disable")
              = (IF batch.guidance = "polarity" THEN 0 ELSE 1)
        /\ batch.guidance = "targeted" =>
              SinceStrategyCall = << "strategy_call", "strategy_disable", "strategy_baseline",
                                     "strategy_enable", "strategy_forward" >>

C7_Witness ==
    /\ pc = "g_loss"
    /\ batch.guidance = "targeted"
    /\ Len(SubFwds("baseline")) = 1

\* C8 as stated: the strategy calls backward on its loss once and returns a
\* detached, gradient-enabled scalar whose value is zero; the orchestrator's
\* backward adds no gradient.
C8_ReturnsZeroPlaceholder ==
    /\ (pc = "nan_check" /\ path = "guidance")
          => /\ Count(SinceStrategyCall, "strategy_backward") = 1
             /\ ~loss.attached /\ loss.requires_grad
             /\ loss.val = 0
    /\ batch.guidance \in GuidanceTypes => \A c \in grads : c.src = "strategy"

\* C8 amended: the strategy calls backward on its real loss once and returns
\* that loss detached and gradient-enabled, still carrying its value (which
\* need not be zero); the orchestrator's later backward for the sub-batch
\* adds no gradient to any trainable parameter.
C8_ReturnsDetachedLoss ==
    /\ (pc = "nan_check" /\ path = "guidance")
          => /\ Count(SinceStrategyCall, "strategy_backward") = 1
             /\ ~loss.attached /\ loss.requires_grad
             /\ Cardinality({ c \in grads : c.sub = sub /\ c.src = "strategy" }) = 1
    /\ batch.guidance \in GuidanceTypes => \A c \in grads : c.src = "strategy"
    /\ (batch.guidance \in GuidanceTypes /\ pc \in {"opt", "sched", "post"})
          => Cardinality(grads) = (IF Count(trace, "optimizer_step") = 1 THEN 0 ELSE NumSubs)

C8_Witness ==
    /\ pc = "opt"
    /\ path = "guidance"
    /\ loss.val = 1
    /\ Count(trace, "backward") = NumSubs

C10_OracleInvokedIff ==
    [][ pc = "prior_decide" =>
          IF \/ (batch.has_adapter_img /\ cfg.assistant_adapter /\ cfg.match_adapter_chance = 1)
             \/ cfg.do_prior_divergence
             \/ batch.guidance = "tnt"
             \/ (batch.is_reg /\ (cfg.has_network \/ cfg.adapter # "none"))
             \/ (cfg.inverted_mask_prior /\ batch.has_mask)
             \/ cfg.correct_pred_norm
          THEN pc' = "prior_fwd" /\ Last(trace') = "prior_call"
          ELSE /\ pc' = "dispatch"
               /\ ~prior_pred'
               /\ UNCHANGED << net_is_active, net_multiplier, adapter_is_active,
                               unet_training >> ]_vars

C10_Witness ==
    /\ pc = "prior_fwd"
    /\ batch.is_reg
    /\ cfg.adapter = "reference" /\ ~cfg.has_network
    /\ ~cfg.do_prior_divergence /\ ~cfg.correct_pred_norm /\ ~cfg.assistant_adapter
    /\ ~(cfg.inverted_mask_prior /\ batch.has_mask)
    /\ batch.guidance = "none"

\* C11 as stated: the reweighting applied is the learnable one if enabled,
\* else the fixed clamp if snr_gamma is set and positive, else the minimum
\* clamp if min_snr_gamma is set and positive, else none.
C11_StatedSnrPriority ==
    snr.st = "done" =>
        snr.applied =
            IF snr.learnable_snr_gos
            THEN << "learnable" >>
            ELSE IF snr.snr_gamma # None /\ snr.snr_gamma > 0
                 THEN << "fixed" >>
                 ELSE IF snr.min_snr_gamma # None /\ snr.min_snr_gamma > 0
                      THEN << "min" >>
                      ELSE << >>

\* C11 amended: at most one reweighting is applied; with train_turbo none is;
\* otherwise the learnable one if enabled, else the fixed clamp if snr_gamma
\* is set and greater than 0.000001, else the minimum clamp if min_snr_gamma
\* is set and greater than 0.000001, else none.
C11_SnrPriority ==
    snr.st = "done" =>
        /\ Len(snr.applied) <= 1
        /\ snr.train_turbo => snr.applied = << >>
        /\ (~snr.train_turbo /\ snr.learnable_snr_gos) => snr.applied = << "learnable" >>
        /\ (~snr.train_turbo /\ ~snr.learnable_snr_gos
                /\ snr.snr_gamma # None /\ snr.snr_gamma > GammaEps)
              => snr.applied = << "fixed" >>
        /\ (~snr.train_turbo /\ ~snr.learnable_snr_gos
                /\ ~(snr.snr_gamma # None /\ snr.snr_gamma > GammaEps)
                /\ snr.min_snr_gamma # None /\ snr.min_snr_gamma > GammaEps)
              => snr.applied = << "min" >>
        /\ (~snr.train_turbo /\ ~snr.learnable_snr_gos
                /\ ~(snr.snr_gamma # None /\ snr.snr_gamma > GammaEps)
                /\ ~(snr.min_snr_gamma # None /\ snr.min_snr_gamma > GammaEps))
              => snr.applied = << >>

\* all three options are set and the learnable reweighting alone is applied
C11_Witness ==
    /\ snr.st = "done"
    /\ ~snr.train_turbo /\ snr.learnable_snr_gos
    /\ snr.snr_gamma # None /\ snr.snr_gamma > GammaEps
    /\ snr.min_snr_gamma # None /\ snr.min_snr_gamma > GammaEps
    /\ snr.applied = << "learnable" >>

\* positions of an event in the trace of the current step
Positions(e) == { i \in DOMAIN trace : trace[i] = e }

\* C12: with single_item_batching and a batch of N items, a step that reaches
\* its optimizer phase has encoded, predicted, computed the loss and called
\* backward once for each of the N sub-batches; it performs at most one
\* optimizer step, after all N backward passes, on gradient buffers that hold
\* the gradient of every sub-batch whose loss was not NaN.
C12_SingleItemBatching ==
    /\ (cfg.single_item_batching /\ pc \in {"opt", "sched", "post"}) =>
          /\ Count(trace, "encode_prompt") = batch.n
          /\ Count(trace, "backward") = batch.n
          /\ path = "direct" =>
                /\ Count(trace, "predict_unet") = batch.n
                /\ Count(trace, "calculate_loss") = batch.n
          /\ path = "guidance" =>
                /\ Count(trace, "strategy_forward") = batch.n
                /\ Count(trace, "strategy_backward") = batch.n
          /\ Count(trace, "optimizer_step") <= 1
          /\ \A i \in Positions("optimizer_step"), j \in Positions("backward") : j < i
    /\ (cfg.single_item_batching /\ pc = "opt" /\ Count(trace, "loss_is_nan") = 0) =>
          \A s \in 1..batch.n : \E c \in grads : c.sub = s /\ c.step = step_num

\* a batch of two items was trained item by item and the optimizer stepped
C12_Witness ==
    /\ cfg.single_item_batching
    /\ batch.n = 2
    /\ pc = "post"
    /\ Count(trace, "backward") = 2
    /\ Count(trace, "optimizer_step") = 1

\* C13: a training step that completes has called lr_scheduler.step exactly
\* once, on accumulation steps and with any number of sub-batches; between
\* steps the scheduler has stepped once per completed step.
C13_SchedulerOncePerStep ==
    /\ pc = "post" => Count(trace, "scheduler_step") = 1
    /\ pc \in {"opt", "sched"} => Count(trace, "scheduler_step") = 0
    /\ pc \in {"fetch", "start"} => sched_steps = step_num

\* an accumulation step over two sub-batches stepped the scheduler
C13_Witness ==
    /\ pc = "post"
    /\ is_grad_accumulation_step
    /\ cfg.single_item_batching /\ batch.n = 2
    /\ Count(trace, "optimizer_step") = 0
    /\ Count(trace, "scheduler_step") = 1

\* the restore call `e` made once, after every backward pass and after the
\* optimizer step if there was one
RestoredOnce(e) ==
    /\ Count(trace, e) = 1
    /\ \A i \in Positions(e) :
          \A j \in Positions("optimizer_step") \cup Positions("backward") : j < i

\* C14: a completed step that trains an embedding has called
\* embedding.restore_embeddings exactly once, and one that trains a
\* ClipVisionAdapter has called adapter.restore_embeddings exactly once, after
\* the optimizer step or the point where it was skipped, on accumulation
\* steps too; no restore call is made before that point.
C14_RestoreEmbeddingsOnce ==
    /\ (pc = "post" /\ cfg.embedding) => RestoredOnce("restore_embeddings")
    /\ (pc = "post" /\ cfg.adapter = "clip_vision") => RestoredOnce("restore_adapter")
    /\ pc # "post" =>
          Count(trace, "restore_embeddings") + Count(trace, "restore_adapter") = 0

\* an accumulation step that trains an embedding restored it
C14_Witness ==
    /\ pc = "post"
    /\ cfg.embedding
    /\ is_grad_accumulation_step
    /\ Count(trace, "optimizer_step") = 0
    /\ Count(trace, "restore_embeddings") = 1

\* C15: whenever a step has ended, normally or because hook_train_loop
\* raised, batch.cleanup() has been called on the batch the step fetched.
C15_BatchCleanedOnEveryExit ==
    pc \in {"fetch", "raised"} => ~batch_cached

\* the loader the current iteration fetches from: what its iterator still
\* yields, and the batches of one epoch
FetchLeft == IF IsRegStep THEN dataloader_iterator_reg ELSE dataloader_iterator

FetchLen == IF IsRegStep THEN cfg.dl_reg_len ELSE cfg.dl_len

\* C16: a fetch from an iterator that still yields is one next() call; a fetch
\* from an exhausted iterator, of either loader, recreates that iterator,
\* triggers the epoch setup and calls next() exactly once more; the batch of
\* the retry starts the step, and a second StopIteration ends the run with
\* the error instead of a batch.
C16_FetchRetriesOnce ==
    [][ (pc = "fetch" /\ pc' # "fetch") =>
           /\ FetchLeft > 0 =>
                 /\ trace' = << "get_batch" >>
                 /\ pc' = "start"
           /\ FetchLeft = 0 =>
                 /\ SubSeq(trace', 1, 5) = << "get_batch", "stop_iteration", "iter",
                                              "setup_epoch", "get_batch" >>
                 /\ Count(trace', "get_batch") = 2
                 /\ Count(trace', "iter") = 1
                 /\ Count(trace', "setup_epoch") = 1
                 /\ IF FetchLen > 0
                    THEN /\ Len(trace') = 5
                         /\ pc' = "start"
                         /\ batch'.is_reg = IsRegStep
                    ELSE /\ Last(trace') = "stop_iteration"
                         /\ Len(trace') = 6
                         /\ pc' = "raised"
                         /\ batch' = NoBatch
           /\ IsRegStep => dataloader_iterator' = dataloader_iterator
           /\ ~IsRegStep => dataloader_iterator_reg' = dataloader_iterator_reg ]_vars

\* a later step starts on the batch of the retry, fetched from the recreated
\* iterator of the regularization loader
C16_Witness ==
    /\ pc = "start"
    /\ batch.is_reg
    /\ trace = << "get_batch", "stop_iteration", "iter", "setup_epoch", "get_batch" >>
    /\ dataloader_iterator_reg = cfg.dl_reg_len - 1
    /\ step_num > 2

\* the loss the same call returns with do_prior_divergence off
LossWithoutDivergence ==
    LossValue([alg EXCEPT !.do_prior_divergence = FALSE, !.additional_loss = alg.added])

\* the call had the penalty on and a prediction equal to the prior prediction
DivergenceOnEqualPrior ==
    /\ alg.st = "done"
    /\ alg.do_prior_divergence /\ alg.has_prior
    /\ ~alg.pred_nan /\ ~alg.prior_nan
    /\ alg.pred = alg.prior_pred

\* C17 as stated: with the prediction equal to the prior prediction, the loss
\* with the prior-divergence penalty on is strictly smaller than the loss of
\* the same call with it off.
C17_StatedStrictlySmaller ==
    DivergenceOnEqualPrior => alg.loss.val < LossWithoutDivergence

\* C17: with the prediction equal to the prior prediction, the penalty term
\* is zero and the loss with the penalty on is never smaller than the loss of
\* the same call with it off.
C17_NeverSmaller ==
    DivergenceOnEqualPrior =>
        /\ DivergenceTerm(alg) = Zeros
        /\ alg.loss.val >= LossWithoutDivergence

\* a call with the penalty on whose loss is larger than with it off: the
\* target is the noise instead of the prior prediction
C17_Witness ==
    /\ DivergenceOnEqualPrior
    /\ alg.target = alg.noise
    /\ alg.pred # alg.noise
    /\ alg.loss.val > LossWithoutDivergence

\* the call of C18: loss target noise, mse, no SNR reweighting, a mask that
\* is zero everywhere
ZeroMaskCall ==
    /\ alg.st = "done"
    /\ alg.loss_target = "noise"
    /\ alg.loss_type = "mse"
    /\ alg.snr_weight = None
    /\ alg.mask_multiplier = Zeros

ExactlyZero(l) == l.val = 0 /\ ~l.nan

\* C18 as stated: with a mask that is zero everywhere the loss is exactly 0
\* for every prediction.
C18_StatedZeroUnderZeroMask ==
    ZeroMaskCall => ExactlyZero(alg.loss)

\* C18: with a mask that is zero everywhere the loss is exactly 0 for every
\* finite prediction and prior prediction when no inverted-mask prior loss
\* and no additional loss of the adapter is added; otherwise it is the sum of
\* those two terms.
C18_ZeroUnderZeroMask ==
    (ZeroMaskCall /\ ~alg.pred_nan /\ ~alg.prior_nan) =>
        /\ (~HasPriorLoss(alg) /\ alg.added = None) => ExactlyZero(alg.loss)
        /\ alg.loss.val = (IF HasPriorLoss(alg) THEN PriorLoss(alg) ELSE 0)
                          + (IF alg.added # None THEN NumElems * alg.added ELSE 0)

\* a zero mask hides a prediction that differs from its target
C18_Witness ==
    /\ ZeroMaskCall
    /\ alg.has_mask
    /\ ~alg.pred_nan /\ ~alg.prior_nan
    /\ alg.pred # alg.target
    /\ alg.loss_multiplier = 2
    /\ ~HasPriorLoss(alg) /\ alg.added = None
    /\ ExactlyZero(alg.loss)

\* the call of C19: the prediction equals the selected target, the mask and
\* the loss multiplier are 1
PredEqualsTargetCall ==
    /\ alg.st = "done"
    /\ ~alg.pred_nan
    /\ ~(alg.prior_nan /\ TargetIsPrior(alg))
    /\ alg.pred = alg.target
    /\ alg.mask_multiplier = Ones
    /\ alg.loss_multiplier = 1

\* C19 as stated: a prediction equal to the selected target, with mask and
\* loss multiplier 1, has loss exactly 0 for mae and for mse.
C19_StatedZeroOnTarget ==
    PredEqualsTargetCall => ExactlyZero(alg.loss)

\* C19: with loss target noise, a prediction equal to the selected target,
\* with mask and loss multiplier 1, has loss exactly 0 for mae and for mse
\* when the prior-divergence penalty is zero (off, or prediction equal to the
\* prior prediction) and the adapter has no additional loss attached.
C19_ZeroOnTarget ==
    ( /\ PredEqualsTargetCall
      /\ alg.loss_target = "noise"
      /\ alg.do_prior_divergence => (alg.pred = alg.prior_pred /\ ~alg.prior_nan)
      /\ alg.added = None ) => ExactlyZero(alg.loss)

\* an mae call on the prior prediction as target, with a mask of ones under
\* inverted_mask_prior and an SNR weight
C19_Witness ==
    /\ PredEqualsTargetCall
    /\ alg.loss_target = "noise"
    /\ alg.loss_type = "mae"
    /\ alg.has_mask /\ alg.inverted_mask_prior
    /\ alg.pred # alg.prior_pred
    /\ alg.snr_weight # None
    /\ alg.added = None
    /\ ExactlyZero(alg.loss)

\* C20: between two steps adapter.additional_loss is None, and every term
\* added to a loss of the current step was attached during the current step.
C20_AdditionalLossCleared ==
    /\ pc = "fetch" => additional_loss = 0
    /\ \A t \in added_terms : t = step_num + 1

\* the call of C21: the inverted-mask prior loss is computed and holds a NaN
NanPriorLossCall ==
    /\ alg.st = "done"
    /\ HasPriorLoss(alg)
    /\ PriorLossNan(alg)

\* the arguments the call was made with
CallArgs == [alg EXCEPT !.additional_loss = alg.added]

\* C21: when the inverted-mask prior loss holds a NaN the message is printed
\* and the call returns the loss it returns with no prior loss term: a NaN
\* exactly when the main term holds one, else the value without the term.
C21_NanPriorLossDiscarded ==
    NanPriorLossCall =>
        /\ alg.printed = << "Prior loss is nan" >>
        /\ alg.loss.nan = MainLossNan(CallArgs)
        /\ ~alg.loss.nan => alg.loss.val = LossValueWith(CallArgs, 0)

\* a NaN in the prior prediction only: the prior loss is dropped and the
\* returned loss is the finite, non-zero main term
C21_Witness ==
    /\ NanPriorLossCall
    /\ alg.prior_nan /\ ~alg.pred_nan
    /\ ~alg.loss.nan
    /\ alg.loss.val > 0
    /\ alg.added = None

\* C22: when content_or_style is none of balanced, style, content, the call
\* raises and has sampled no timestep and no noise, produced no noisy latents
\* and returned nothing.
C22_UnknownPolicyRaises ==
    (smp.st # "ready" /\ smp.st # "idle" /\ smp.policy \notin {"balanced", "style", "content"}) =>
        /\ smp.st = "raised"
        /\ Last(smp.events) = "raise"
        /\ \A e \in {"timesteps", "get_latent_noise", "add_noise", "return"} :
               Count(smp.events, e) = 0
        /\ smp.t = 0

\* the call with an unknown policy has raised
C22_Witness ==
    /\ smp.policy = "sigmoid"
    /\ smp.st = "raised"
    /\ smp.events = << "set_timesteps", "raise" >>

\* C23: a call of get_guidance_loss with a guidance type that is none of
\* targeted, polarity, targeted_polarity raises at once: no forward pass and
\* no backward pass is issued and network.is_active and network.multiplier
\* are as they were at the call.
C23_UnknownGuidanceRaises ==
    [][ ( /\ pc = "dispatch"
          /\ pc' # "dispatch"
          /\ batch.guidance \notin {"none", "targeted", "polarity", "targeted_polarity"} ) =>
            /\ pc' = "unwind"
            /\ Last(trace') = "guidance_not_implemented"
            /\ fwds' = fwds
            /\ grads' = grads /\ pending' = pending
            /\ net_is_active' = net_is_active
            /\ net_multiplier' = net_multiplier ]_vars

\* the call has raised while the network was active with the weights of the batch
C23_Witness ==
    /\ pc = "unwind"
    /\ Last(trace) = "guidance_not_implemented"
    /\ batch.guidance = "tnt"
    /\ net_is_active
    /\ net_multiplier = network_weight_list
    /\ Len(net_multiplier) = 2

\* number of jobs of the list that have finished, completed or failed
JobsFinished == Len(runner.outcomes)

\* C24: the jobs are taken in list order, each at most once, and the two
\* counters add up to the jobs finished so far. Without --recover the first
\* failure prints the end message and re-raises, and no later job is
\* started; with --recover nothing is re-raised and, when the loop ends,
\* every job has been attempted exactly once.
C24_RunnerPolicy ==
    runner.st # "idle" =>
        /\ runner.jobs_completed + runner.jobs_failed = JobsFinished
        /\ runner.jobs_completed = Count(runner.outcomes, "completed")
        /\ \A i \in 1..runner.n :
               runner.attempts[i] = (IF i <= JobsFinished THEN 1 ELSE 0)
        /\ ~runner.recover =>
               /\ runner.raised <=> runner.jobs_failed > 0
               /\ runner.raised =>
                     /\ runner.st = "aborted"
                     /\ Last(runner.outcomes) # "completed"
                     /\ runner.jobs_failed = 1
                     /\ Last(runner.printed)
                          = << "end_message", runner.jobs_completed, runner.jobs_failed >>
        /\ runner.recover =>
               /\ ~runner.raised /\ runner.st # "aborted"
               /\ runner.st = "done" <=> JobsFinished = runner.n
        /\ runner.st = "done" => JobsFinished = runner.n

\* with --recover the last job runs after two earlier jobs failed
C24_Witness ==
    /\ runner.st = "done"
    /\ runner.recover
    /\ runner.n = 3
    /\ runner.jobs_failed = 2
    /\ Last(runner.outcomes) = "completed"

\* positions of the events of a set; two events belong to the same sub-batch
\* when no prompt encoding lies between them
PositionsIn(es) == { i \in DOMAIN trace : trace[i] \in es }

EncodedBetween(i, j) == \E k \in (i + 1)..(j - 1) : trace[k] = "encode_prompt"

\* no event of as at or after an event of bs
Precede(as, bs) == \A j \in PositionsIn(bs) : \A i \in j..Len(trace) : trace[i] \notin as

\* C25: in every step, and for every sub-batch of it, the prompt encoding
\* comes before the prior prediction and the prior prediction before the
\* gradient-tracked forward pass; every backward pass, a strategy's own
\* included, comes before gradient clipping, clipping before the optimizer
\* step, the optimizer step before the scheduler step and the scheduler step
\* before the restore calls.
C25_PhaseOrder ==
    /\ LET priors == PositionsIn({"prior_call", "prior_return"})
           forwards == PositionsIn({"predict_unet", "strategy_forward"})
       IN  /\ \A p \in priors \cup forwards : EncodedBetween(0, p)
           /\ \A p \in priors, f \in forwards : f < p => EncodedBetween(f, p)
    /\ Precede({"encode_prompt", "prior_call", "predict_unet", "strategy_forward",
                "backward", "strategy_backward"}, {"clip_grad"})
    /\ Precede({"clip_grad"}, {"optimizer_step"})
    /\ Precede({"optimizer_step"}, {"scheduler_step"})
    /\ Precede({"scheduler_step"}, {"restore_embeddings", "restore_adapter"})
    /\ pc = "post" =>
          /\ Count(trace, "scheduler_step") = 1
          /\ Count(trace, "backward") = NumSubs
          /\ ~is_grad_accumulation_step => Count(trace, "clip_grad") = 1

\* a step of two sub-batches, each with its own prior prediction and a
\* strategy that called backward itself, ended by an optimizer step
C25_Witness ==
    /\ pc = "post"
    /\ Count(trace, "prior_call") = 2
    /\ Count(trace, "strategy_backward") = 2
    /\ Count(trace, "optimizer_step") = 1

\* ------------------------------------------ C26: residuals after the oracle
\* the gradient-tracked forwards issued after a prior prediction of the same
\* sub-batch
AfterPrior(i) ==
    /\ fwds[i].grad
    /\ \E j \in 1..(i - 1) : fwds[j].kind = "prior" /\ fwds[j].sub = fwds[i].sub

\* C26: when match_adapter_assist is true, the gradient-tracked forward after
\* the prior prediction is issued with none of the adapter residual arguments,
\* whatever the type of the assistant adapter
C26_NoResidualsWhenMatching ==
    \A i \in DOMAIN fwds :
        (match_adapter_assist /\ AfterPrior(i))
            => fwds[i].residuals \cap AdapterResiduals = {}

\* --------------------------------- C27: no sample or save on a reg batch
\* C27: no iteration of the training loop in which sample() or save() is
\* called uses a regularization batch
C27_NoCheckpointOnRegStep ==
    \A c \in checkpoints : ~c.is_reg_step

\* with a regularization dataset, an even iteration both samples and saves
C27_Witness ==
    /\ cfg.ds_reg
    /\ \E c, d \in checkpoints :
          /\ c.kind = "sample" /\ d.kind = "save"
          /\ c.step = d.step
          /\ (c.step + 1) % 2 = 0

\* ----------------------------- C28: the multiplier of the current batch
\* the lists a forward of the current step may find on the network: the
\* weight list of the batch or its polarized concatenation
CurrentMultipliers ==
    { NetworkWeightList(batch), CatNetworkWeightList(NetworkWeightList(batch)) }

\* C28: every step assigns network.multiplier from the weight list of the
\* current batch before any forward, so no forward of a step uses a multiplier
\* that an earlier step left on the network
C28_MultiplierFromCurrentBatch ==
    cfg.has_network =>
        /\ (pc = "enter" /\ sub = 1) =>
              (fwds = << >> /\ net_multiplier = NetworkWeightList(batch))
        /\ \A i \in DOMAIN fwds : fwds[i].mult \in CurrentMultipliers

\* a step that follows a guidance step, whose backward is still pending, has
\* issued its forward with the one-item list of its own batch
C28_Witness ==
    /\ cfg.has_network
    /\ step_num >= 1
    /\ \E p \in pending : p.step = step_num - 1 /\ p.src = "strategy"
    /\ batch.n = 1 /\ batch.guidance = "none"
    /\ fwds # << >>
    /\ Last(fwds).kind = "direct"
    /\ Last(fwds).mult = batch.weights

\* ------------------------------------- C29: no gradient from a NaN loss
\* C29: in a sub-batch whose computed loss is NaN, on the direct path and on
\* the guidance path, no gradient derived from that loss is added to a
\* trainable parameter, so the optimizer step that follows is not affected
C29_NoGradientFromNanLoss ==
    /\ \A g \in grads : ~g.nan
    /\ \A g \in pending : ~g.nan

\* ------------------------- C30: one multiplier per item of the forward
\* C30: at every gradient-tracked forward of a step the per-item list
\* network.multiplier has as many entries as the forward has items, with and
\* without single_item_batching, on the direct and on the guidance path
C30_MultiplierLengthIsBatchSize ==
    cfg.has_network =>
        \A i \in DOMAIN fwds :
            fwds[i].grad => Len(fwds[i].mult) = fwds[i].bs

====
